---- MODULE Spec2Model ----
(***************************************************************************)
(* Organization quota-usage accounting (OrganizationUsageService).         *)
(*                                                                         *)
(* The shared store (Redis) holds confirmed counters, pending counters and *)
(* the fetched_at stamps. The relational store holds the sandboxes,        *)
(* snapshots and volumes. Every await of the service is one step: a Redis  *)
(* command, a Lua script, a MULTI/EXEC block or a database query is atomic,*)
(* and other calls interleave between two of them.                         *)
(***************************************************************************)
EXTENDS Integers, Sequences, FiniteSets, TLC

VARIABLES
    now,        \* wall clock (Date.now() and the store's clock), in ticks
    store,      \* Redis: key -> [val, exp]
    lock,       \* RedisLockProvider: lock key -> holder and expiry, or Free
    sandboxDb,  \* sandboxRepository: sandbox id -> state, or "none"
    snapshotDb, \* snapshotRepository: snapshot id -> state, or "none"
    volumeDb,   \* volumeRepository: volume id -> state, or "none"
    events,     \* emitted events whose handler has not finished
    nEmitted,   \* number of events emitted so far
    calls       \* the callers of the public operations: caller -> frame

vars == <<now, store, lock, sandboxDb, snapshotDb, volumeDb, events, nEmitted, calls>>

----------------------------------------------------------------------------
(* Bounds of the model *)

\* the clock stops after MaxTime ticks
MaxTime == 3
\* events emitted in one behaviour
MaxEvents == 2
\* public operations started by one caller in one behaviour
MaxCalls == 2

----------------------------------------------------------------------------
(* Program constants. One tick of the clock stands for 30 s: the TTL of    *)
(* 60 s is two ticks, and the maximum age is kept just above the TTL (the  *)
(* code's hour is 120 ticks), so that a counter lives past it only when    *)
(* its TTL was refreshed.                                                  *)

CACHE_TTL_SECONDS == 2
CACHE_MAX_AGE_MS == 2
\* the ttl the service passes to waitForLock: 60 s
LOCK_TTL_SECONDS == 2

Organizations == {"O1"}
SandboxIds == {"S1"}
SnapshotIds == {"P1"}
VolumeIds == {"V1"}
Callers == {"c1", "c2"}
\* c1 calls the read operations, c2 reserves and releases pending usage
Readers == {"c1"}
Reservers == {"c2"}

\* the rows of the sandbox table: organizationId, cpu, mem, disk
SandboxRow(id) == [organizationId |-> "O1", cpu |-> 1, mem |-> 2, disk |-> 3]

SandboxStates == {"started", "stopped", "destroyed"}
SANDBOX_USAGE_IGNORED_STATES == {"destroyed"}
SANDBOX_USAGE_INACTIVE_STATES == SANDBOX_USAGE_IGNORED_STATES \cup {"stopped"}
SANDBOX_STATES_CONSUMING_COMPUTE == SandboxStates \ SANDBOX_USAGE_INACTIVE_STATES
SANDBOX_STATES_CONSUMING_DISK == SandboxStates \ SANDBOX_USAGE_IGNORED_STATES

\* the states of a snapshot or a volume the model tells apart
SnapshotStates == {"active", "error"}
VolumeStates == {"ready", "error"}
SNAPSHOT_USAGE_IGNORED_STATES == {"error"}
VOLUME_USAGE_IGNORED_STATES == {"error"}

QuotaTypes == {"cpu", "memory", "disk", "snapshot_count", "volume_count"}
SandboxQuotas == <<"cpu", "memory", "disk">>
ResourceTypes == {"sandbox", "snapshot", "volume"}

getResourceTypeFromQuota(quotaType) ==
    CASE quotaType = "snapshot_count" -> "snapshot"
      [] quotaType = "volume_count" -> "volume"
      [] OTHER -> "sandbox"

----------------------------------------------------------------------------
(* Values: what a Redis GET or a JavaScript expression yields *)

Nil == [kind |-> "nil", n |-> 0]
Num(n) == [kind |-> "num", n |-> n]
\* a field an object does not have
Undefined == [kind |-> "undefined", n |-> 0]
IsNum(v) == v.kind = "num"

\* JavaScript's ToNumber in an arithmetic expression: null is 0
ToNumber(v) == IF IsNum(v) THEN v.n ELSE 0
Max(a, b) == IF a >= b THEN a ELSE b

----------------------------------------------------------------------------
(* Keys *)

getQuotaUsageCacheKey(organizationId, quotaType) ==
    <<"org", organizationId, "quota", quotaType, "usage">>
getPendingQuotaUsageCacheKey(organizationId, quotaType) ==
    <<"org", organizationId, "pending", quotaType>>
getCacheStalenessKey(organizationId, resourceType) ==
    <<"org", organizationId, "resource", resourceType, "usage", "fetched_at">>

Keys ==
    {getQuotaUsageCacheKey(o, q) : o \in Organizations, q \in QuotaTypes}
    \cup {getPendingQuotaUsageCacheKey(o, q) : o \in Organizations, q \in QuotaTypes}
    \cup {getCacheStalenessKey(o, r) : o \in Organizations, r \in ResourceTypes}

----------------------------------------------------------------------------
(* Redis commands, on a store s at the current time *)

Absent == [val |-> Nil, exp |-> 0]

RedisGet(s, k) == s[k].val
RedisExists(s, k) == s[k].val # Nil
\* SET: the key holds v and has no expiry (exp = 0)
RedisSet(s, k, v) == [s EXCEPT ![k] = [val |-> Num(v), exp |-> 0]]
RedisSetex(s, k, ttl, v) == [s EXCEPT ![k] = [val |-> Num(v), exp |-> now + ttl]]
\* INCRBY: an absent key counts as 0 and is created without expiry
RedisIncrBy(s, k, d) == [s EXCEPT ![k] = [val |-> Num(ToNumber(@.val) + d), exp |-> @.exp]]
RedisDecrBy(s, k, d) == RedisIncrBy(s, k, 0 - d)
RedisExpire(s, k, ttl) == IF RedisExists(s, k) THEN [s EXCEPT ![k].exp = now + ttl] ELSE s

\* the keys whose expiry has passed at time t are gone
Expired(s, t) == [k \in DOMAIN s |-> IF s[k].exp > 0 /\ s[k].exp <= t THEN Absent ELSE s[k]]

----------------------------------------------------------------------------
(* The Lua scripts of the counter store: each maps a store to the store    *)
(* the script leaves.                                                      *)

\* an update script that leaves the pending counter alone
updateQuotaUsageConfirmedOnly(s, organizationId, quotaType, delta) ==
    LET cacheKey == getQuotaUsageCacheKey(organizationId, quotaType)
    IN  IF RedisExists(s, cacheKey)
        THEN RedisExpire(RedisIncrBy(s, cacheKey, delta), cacheKey, CACHE_TTL_SECONDS)
        ELSE s

\* updateQuotaUsage: INCRBY and EXPIRE the confirmed key if it exists; then
\* DECRBY the pending key by delta if it holds a positive number and delta > 0
updateQuotaUsage(s, organizationId, quotaType, delta) ==
    LET cacheKey == getQuotaUsageCacheKey(organizationId, quotaType)
        pendingCacheKey == getPendingQuotaUsageCacheKey(organizationId, quotaType)
        s1 == IF RedisExists(s, cacheKey)
              THEN RedisExpire(RedisIncrBy(s, cacheKey, delta), cacheKey, CACHE_TTL_SECONDS)
              ELSE s
        pending == RedisGet(s1, pendingCacheKey)
    IN  IF IsNum(pending) /\ pending.n > 0 /\ delta > 0
        THEN RedisDecrBy(s1, pendingCacheKey, delta)
        ELSE s1

\* a delta that looks at the new state only
calculateQuotaUsageDeltaOfNewState(resourceAmount, oldState, newState, statesConsumingResource) ==
    IF newState \in statesConsumingResource THEN resourceAmount ELSE 0 - resourceAmount

\* a delta that counts the amount whenever the new state consumes, whether or
\* not the old state consumed already
calculateQuotaUsageDeltaIgnoringOldState(resourceAmount, oldState, newState, statesConsumingResource) ==
    IF newState \in statesConsumingResource THEN resourceAmount
    ELSE IF oldState \in statesConsumingResource THEN 0 - resourceAmount
    ELSE 0

calculateQuotaUsageDelta(resourceAmount, oldState, newState, statesConsumingResource) ==
    LET wasConsumingResource == oldState \in statesConsumingResource
        isConsumingResource == newState \in statesConsumingResource
    IN  IF ~wasConsumingResource /\ isConsumingResource THEN resourceAmount
        ELSE IF wasConsumingResource /\ ~isConsumingResource THEN 0 - resourceAmount
        ELSE 0

\* a script that increments the selected pending counters and sets no expiry
incrementPendingWithoutExpire(s, organizationId, flags, amounts) ==
    LET inc(t, i, quotaType) ==
            IF flags[i]
            THEN RedisIncrBy(t, getPendingQuotaUsageCacheKey(organizationId, quotaType),
                             amounts[i])
            ELSE t
    IN  inc(inc(inc(s, 1, "cpu"), 2, "memory"), 3, "disk")

\* an increment that writes back a value computed from a counter read as 0:
\* what the counter held is lost
incrementPendingOverwrites(s, organizationId, flags, amounts) ==
    LET inc(t, i, quotaType) ==
            IF flags[i]
            THEN RedisSetex(t, getPendingQuotaUsageCacheKey(organizationId, quotaType),
                            CACHE_TTL_SECONDS, amounts[i])
            ELSE t
    IN  inc(inc(inc(s, 1, "cpu"), 2, "memory"), 3, "disk")

\* a script that increments the three pending counters whatever the flags
incrementPendingIgnoringFlags(s, organizationId, flags, amounts) ==
    LET inc(t, i, quotaType) ==
            RedisExpire(RedisIncrBy(t, getPendingQuotaUsageCacheKey(organizationId, quotaType),
                                    amounts[i]),
                        getPendingQuotaUsageCacheKey(organizationId, quotaType),
                        CACHE_TTL_SECONDS)
    IN  inc(inc(inc(s, 1, "cpu"), 2, "memory"), 3, "disk")

\* incrementPendingSandboxUsage, the script: INCRBY and EXPIRE each selected key
incrementPendingScript(s, organizationId, flags, amounts) ==
    LET inc(t, i, quotaType) ==
            IF flags[i]
            THEN RedisExpire(RedisIncrBy(t, getPendingQuotaUsageCacheKey(organizationId, quotaType),
                                         amounts[i]),
                             getPendingQuotaUsageCacheKey(organizationId, quotaType),
                             CACHE_TTL_SECONDS)
            ELSE t
    IN  inc(inc(inc(s, 1, "cpu"), 2, "memory"), 3, "disk")

\* a script that decrements the cpu counter only
decrementPendingCpuOnly(s, organizationId, amounts) ==
    RedisDecrBy(s, getPendingQuotaUsageCacheKey(organizationId, "cpu"), ToNumber(amounts[1]))

\* decrementPendingSandboxUsage, the script. An amount that was not supplied
\* is passed as '0', and tonumber('0') is 0, which Lua takes as true: each of
\* the three keys is DECRBYed, by 0 when its amount was not supplied
decrementPendingScript(s, organizationId, amounts) ==
    LET dec(t, i, quotaType) ==
            RedisDecrBy(t, getPendingQuotaUsageCacheKey(organizationId, quotaType),
                        ToNumber(amounts[i]))
    IN  dec(dec(dec(s, 1, "cpu"), 2, "memory"), 3, "disk")

\* getQuotaPendingUsage: null unless the key holds a non-negative number
getQuotaPendingUsage(s, organizationId, quotaType) ==
    LET cachedData == RedisGet(s, getPendingQuotaUsageCacheKey(organizationId, quotaType))
    IN  IF cachedData = Nil THEN Nil
        ELSE IF ~IsNum(cachedData) \/ cachedData.n < 0 THEN Nil
        ELSE cachedData

----------------------------------------------------------------------------
(* RedisLockProvider: a named mutex in the shared store. A lock is a key   *)
(* set with the owner's token and a ttl (SET key owner EX ttl NX); it is   *)
(* released by its owner, or expires.                                      *)

Free == [owner |-> "free", exp |-> 0]

SandboxLockKey(id) == <<"sandbox", id, "quota-usage-update">>
SnapshotLockKey(id) == <<"snapshot", id, "quota-usage-update">>
VolumeLockKey(id) == <<"volume", id, "quota-usage-update">>
FetchLockKey(organizationId, resourceType) ==
    <<"org", organizationId, "fetch", resourceType, "usage-from-db">>

LockKeys ==
    {SandboxLockKey(id) : id \in SandboxIds}
    \cup {SnapshotLockKey(id) : id \in SnapshotIds}
    \cup {VolumeLockKey(id) : id \in VolumeIds}
    \cup {FetchLockKey(o, r) : o \in Organizations, r \in ResourceTypes}

\* waitForLock returns once the key could be set
waitForLock(lockKey, owner) ==
    /\ lock[lockKey] = Free
    /\ lock' = [lock EXCEPT ![lockKey] = [owner |-> owner, exp |-> now + LOCK_TTL_SECONDS]]

\* unlock releases the lock if the caller's token still owns it
unlock(lockKey, owner) ==
    lock' = IF lock[lockKey].owner = owner THEN [lock EXCEPT ![lockKey] = Free] ELSE lock

\* the ttl of a lock has passed: the key is gone
LockExpires(lockKey) ==
    /\ lock[lockKey] # Free
    /\ lock[lockKey].exp <= now
    /\ lock' = [lock EXCEPT ![lockKey] = Free]
    /\ UNCHANGED <<now, store, sandboxDb, snapshotDb, volumeDb, events, nEmitted, calls>>

----------------------------------------------------------------------------
(* Usage overviews (the DTOs): a field the DTO does not have is Undefined  *)

NoOverview ==
    [currentCpuUsage |-> Undefined, currentMemoryUsage |-> Undefined,
     currentDiskUsage |-> Undefined, currentSnapshotUsage |-> Undefined,
     currentVolumeUsage |-> Undefined, pendingCpuUsage |-> Undefined,
     pendingMemoryUsage |-> Undefined, pendingDiskUsage |-> Undefined]

SandboxUsageOverview(cpu, memory, disk) ==
    [NoOverview EXCEPT !.currentCpuUsage = cpu, !.currentMemoryUsage = memory,
                       !.currentDiskUsage = disk]
SnapshotUsageOverview(count) == [NoOverview EXCEPT !.currentSnapshotUsage = count]
VolumeUsageOverview(count) == [NoOverview EXCEPT !.currentVolumeUsage = count]

\* getCachedSandboxUsageOverviewWithPending, the script: the six keys in one read
ReadSandboxUsageWithPending(s, organizationId) ==
    [SandboxUsageOverview(RedisGet(s, getQuotaUsageCacheKey(organizationId, "cpu")),
                          RedisGet(s, getQuotaUsageCacheKey(organizationId, "memory")),
                          RedisGet(s, getQuotaUsageCacheKey(organizationId, "disk")))
       EXCEPT !.pendingCpuUsage = RedisGet(s, getPendingQuotaUsageCacheKey(organizationId, "cpu")),
              !.pendingMemoryUsage = RedisGet(s, getPendingQuotaUsageCacheKey(organizationId, "memory")),
              !.pendingDiskUsage = RedisGet(s, getPendingQuotaUsageCacheKey(organizationId, "disk"))]

\* the record of what the six sandbox keys hold, kept for each call of
\* getSandboxUsageOverviewWithPending in progress, after a step that left store s
Observe(cs, s) ==
    [c \in Callers |->
        IF cs[c].op = "getSandboxUsageOverviewWithPending" /\ cs[c].pc \notin {"idle", "exclude", "unlock", "done"}
        THEN [cs[c] EXCEPT !.seen = @ \cup {ReadSandboxUsageWithPending(s, cs[c].organizationId)}]
        ELSE cs[c]]

----------------------------------------------------------------------------
(* The database projection *)

RECURSIVE Sum(_, _)
Sum(S, f) == IF S = {} THEN 0 ELSE LET x == CHOOSE y \in S : TRUE IN f[x] + Sum(S \ {x}, f)

\* fetchSandboxUsageFromDb, the query: SUM(CASE WHEN state IN (...) THEN amount ELSE 0 END)
SandboxUsageMetrics(organizationId) ==
    LET rows == {id \in SandboxIds : sandboxDb[id] # "none"
                                     /\ SandboxRow(id).organizationId = organizationId}
        cpu == [id \in rows |-> IF sandboxDb[id] \in SANDBOX_STATES_CONSUMING_COMPUTE
                                 THEN SandboxRow(id).cpu ELSE 0]
        mem == [id \in rows |-> IF sandboxDb[id] \in SANDBOX_STATES_CONSUMING_COMPUTE
                                 THEN SandboxRow(id).mem ELSE 0]
        disk == [id \in rows |-> IF sandboxDb[id] \in SANDBOX_STATES_CONSUMING_DISK
                                  THEN SandboxRow(id).disk ELSE 0]
    IN  SandboxUsageOverview(Num(Sum(rows, cpu)), Num(Sum(rows, mem)), Num(Sum(rows, disk)))

\* fetchSnapshotUsageFromDb, the query: count where state not in the ignored states
SnapshotCount(organizationId) ==
    Cardinality({id \in SnapshotIds : snapshotDb[id] # "none"
                                      /\ snapshotDb[id] \notin SNAPSHOT_USAGE_IGNORED_STATES})

VolumeCount(organizationId) ==
    Cardinality({id \in VolumeIds : volumeDb[id] # "none"
                                    /\ volumeDb[id] \notin VOLUME_USAGE_IGNORED_STATES})

----------------------------------------------------------------------------
(* Initial state: an empty store, empty tables, nothing in flight *)

\* the frame of a caller: its position (pc), its arguments and its locals.
\* path, t0, tChecked and seen record how and when the call went: the path
\* it returned on, the time it started, the time of its last staleness check
\* and, for getSandboxUsageOverviewWithPending, the values the six sandbox keys
\* held together at each point since the call started. A call of
\* getUsageOverview (outer) keeps the id of the organization object it was
\* given or found, the exception it threw (error) and the overviews it has
\* gathered (total) while op is the getter it is awaiting. tLocked is the
\* time the call took the lock it holds.
IdleCall ==
    [pc |-> "idle", op |-> "none", organizationId |-> "O1", excludeSandboxId |-> "none",
     amounts |-> <<>>, flags |-> <<>>,
     locked |-> FALSE, i |-> 0, usage |-> NoOverview, excluded |-> "none",
     ret |-> NoOverview, seen |-> {},
     path |-> "none", n |-> 0, t0 |-> 0, tChecked |-> 0,
     outer |-> "none", organization |-> "none", error |-> "none", total |-> NoOverview,
     tLocked |-> 0, invalid |-> {}]

Init ==
    /\ now = 0
    /\ store = [k \in Keys |-> Absent]
    /\ lock = [k \in LockKeys |-> Free]
    /\ sandboxDb = [id \in SandboxIds |-> "none"]
    /\ snapshotDb = [id \in SnapshotIds |-> "none"]
    /\ volumeDb = [id \in VolumeIds |-> "none"]
    /\ events = {}
    /\ nEmitted = 0
    /\ calls = [c \in Callers |-> IdleCall]

\* time passes; the store drops the keys whose expiry has come
Tick ==
    /\ now < MaxTime
    /\ now' = now + 1
    /\ store' = Expired(store, now + 1)
    /\ calls' = Observe(calls, store')
    /\ UNCHANGED <<lock, sandboxDb, snapshotDb, volumeDb, events, nEmitted>>

----------------------------------------------------------------------------
(* The sandbox, snapshot and volume services: they write the table, then   *)
(* emit the event; the handler runs later, on its own.                     *)

NewEvent(type, entityId, organizationId, row, oldState, newState) ==
    [id |-> nEmitted + 1, type |-> type, entityId |-> entityId,
     organizationId |-> organizationId, cpu |-> row.cpu, mem |-> row.mem, disk |-> row.disk,
     oldState |-> oldState, newState |-> newState, pc |-> "waitForLock", todo |-> <<>>,
     tLocked |-> 0, error |-> "none"]

NoRow == [cpu |-> 0, mem |-> 0, disk |-> 0]

Emit(e) ==
    /\ nEmitted < MaxEvents
    /\ events' = events \cup {e}
    /\ nEmitted' = nEmitted + 1

SandboxCreate(id) ==
    /\ sandboxDb[id] = "none"
    /\ sandboxDb' = [sandboxDb EXCEPT ![id] = "started"]
    /\ Emit(NewEvent("SandboxCreated", id, SandboxRow(id).organizationId, SandboxRow(id),
                     "none", "started"))
    /\ UNCHANGED <<now, store, lock, snapshotDb, volumeDb, calls>>

SandboxUpdateState(id, newState) ==
    /\ sandboxDb[id] \in SandboxStates \ {"destroyed"}
    /\ newState # sandboxDb[id]
    /\ sandboxDb' = [sandboxDb EXCEPT ![id] = newState]
    /\ Emit(NewEvent("SandboxStateUpdated", id, SandboxRow(id).organizationId, SandboxRow(id),
                     sandboxDb[id], newState))
    /\ UNCHANGED <<now, store, lock, snapshotDb, volumeDb, calls>>

SnapshotCreate(id) ==
    /\ snapshotDb[id] = "none"
    /\ snapshotDb' = [snapshotDb EXCEPT ![id] = "active"]
    /\ Emit(NewEvent("SnapshotCreated", id, "O1", NoRow, "none", "active"))
    /\ UNCHANGED <<now, store, lock, sandboxDb, volumeDb, calls>>

SnapshotUpdateState(id, newState) ==
    /\ snapshotDb[id] \in SnapshotStates
    /\ newState # snapshotDb[id]
    /\ snapshotDb' = [snapshotDb EXCEPT ![id] = newState]
    /\ Emit(NewEvent("SnapshotStateUpdated", id, "O1", NoRow, snapshotDb[id], newState))
    /\ UNCHANGED <<now, store, lock, sandboxDb, volumeDb, calls>>

VolumeCreate(id) ==
    /\ volumeDb[id] = "none"
    /\ volumeDb' = [volumeDb EXCEPT ![id] = "ready"]
    /\ Emit(NewEvent("VolumeCreated", id, "O1", NoRow, "none", "ready"))
    /\ UNCHANGED <<now, store, lock, sandboxDb, snapshotDb, calls>>

VolumeUpdateState(id, newState) ==
    /\ volumeDb[id] \in VolumeStates
    /\ newState # volumeDb[id]
    /\ volumeDb' = [volumeDb EXCEPT ![id] = newState]
    /\ Emit(NewEvent("VolumeStateUpdated", id, "O1", NoRow, volumeDb[id], newState))
    /\ UNCHANGED <<now, store, lock, sandboxDb, snapshotDb, calls>>

----------------------------------------------------------------------------
(* Event handlers. After the lock, a handler has a list of updateQuotaUsage *)
(* calls to make (todo), each one script; then it unlocks.                  *)

EventLockKey(e) ==
    CASE e.type \in {"SandboxCreated", "SandboxStateUpdated"} -> SandboxLockKey(e.entityId)
      [] e.type \in {"SnapshotCreated", "SnapshotStateUpdated"} -> SnapshotLockKey(e.entityId)
      [] OTHER -> VolumeLockKey(e.entityId)

\* handlers that make every update, those with a delta of 0 included
EveryUpdate(updates) == updates

\* the updates with a delta of 0 are not made
NonZero(updates) == SelectSeq(updates, LAMBDA u : u[2] # 0)

handleSandboxCreated(e) == <<<<"cpu", e.cpu>>, <<"memory", e.mem>>, <<"disk", e.disk>>>>

\* a handler that computes the disk delta with the states that consume
\* compute
handleSandboxStateUpdatedDiskAsCompute(e) ==
    LET cpuDelta == calculateQuotaUsageDelta(e.cpu, e.oldState, e.newState,
                                            SANDBOX_STATES_CONSUMING_COMPUTE)
        memDelta == calculateQuotaUsageDelta(e.mem, e.oldState, e.newState,
                                            SANDBOX_STATES_CONSUMING_COMPUTE)
        diskDelta == calculateQuotaUsageDelta(e.disk, e.oldState, e.newState,
                                             SANDBOX_STATES_CONSUMING_COMPUTE)
    IN  NonZero(<<<<"cpu", cpuDelta>>, <<"memory", memDelta>>, <<"disk", diskDelta>>>>)

handleSandboxStateUpdated(e) ==
    LET cpuDelta == calculateQuotaUsageDelta(e.cpu, e.oldState, e.newState,
                                            SANDBOX_STATES_CONSUMING_COMPUTE)
        memDelta == calculateQuotaUsageDelta(e.mem, e.oldState, e.newState,
                                            SANDBOX_STATES_CONSUMING_COMPUTE)
        diskDelta == calculateQuotaUsageDelta(e.disk, e.oldState, e.newState,
                                             SANDBOX_STATES_CONSUMING_DISK)
    IN  NonZero(<<<<"cpu", cpuDelta>>, <<"memory", memDelta>>, <<"disk", diskDelta>>>>)

handleSnapshotCreated(e) == <<<<"snapshot_count", 1>>>>

handleSnapshotStateUpdated(e) ==
    LET countDelta == calculateQuotaUsageDelta(1, e.oldState, e.newState,
                                              SNAPSHOT_USAGE_IGNORED_STATES)
    IN  NonZero(<<<<"snapshot_count", countDelta>>>>)

handleVolumeCreated(e) == <<<<"volume_count", 1>>>>

handleVolumeStateUpdated(e) ==
    LET countDelta == calculateQuotaUsageDelta(1, e.oldState, e.newState,
                                              VOLUME_USAGE_IGNORED_STATES)
    IN  NonZero(<<<<"volume_count", countDelta>>>>)

HandlerUpdates(e) ==
    CASE e.type = "SandboxCreated" -> handleSandboxCreated(e)
      [] e.type = "SandboxStateUpdated" -> handleSandboxStateUpdated(e)
      [] e.type = "SnapshotCreated" -> handleSnapshotCreated(e)
      [] e.type = "SnapshotStateUpdated" -> handleSnapshotStateUpdated(e)
      [] e.type = "VolumeCreated" -> handleVolumeCreated(e)
      [] OTHER -> handleVolumeStateUpdated(e)

AfterUpdates(todo) == IF todo = <<>> THEN "unlock" ELSE "update"

\* a handler that goes on to its updates without taking the lock
HandlerWithoutLock(e) ==
    /\ e.pc = "waitForLock"
    /\ LET todo == HandlerUpdates(e)
       IN  events' = (events \ {e}) \cup {[e EXCEPT !.pc = AfterUpdates(todo), !.todo = todo,
                                                     !.tLocked = now]}
    /\ UNCHANGED <<now, store, lock, sandboxDb, snapshotDb, volumeDb, nEmitted, calls>>

HandlerLock(e) ==
    /\ e.pc = "waitForLock"
    /\ waitForLock(EventLockKey(e), ToString(e.id))
    /\ LET todo == HandlerUpdates(e)
       IN  events' = (events \ {e}) \cup {[e EXCEPT !.pc = AfterUpdates(todo), !.todo = todo,
                                                     !.tLocked = now]}
    /\ UNCHANGED <<now, store, sandboxDb, snapshotDb, volumeDb, nEmitted, calls>>

HandlerUpdate(e) ==
    /\ e.pc = "update"
    /\ store' = updateQuotaUsage(store, e.organizationId, Head(e.todo)[1], Head(e.todo)[2])
    /\ events' = (events \ {e})
                 \cup {[e EXCEPT !.pc = AfterUpdates(Tail(e.todo)), !.todo = Tail(e.todo)]}
    /\ calls' = Observe(calls, store')
    /\ UNCHANGED <<now, lock, sandboxDb, snapshotDb, volumeDb, nEmitted>>

HandlerUnlock(e) ==
    /\ e.pc = "unlock"
    /\ unlock(EventLockKey(e), ToString(e.id))
    /\ events' = events \ {e}
    /\ UNCHANGED <<now, store, sandboxDb, snapshotDb, volumeDb, nEmitted, calls>>

Handler(e) == HandlerLock(e) \/ HandlerUpdate(e) \/ HandlerUnlock(e)

----------------------------------------------------------------------------
(* Staleness and the cached reads *)

\* a staleness check that finds every family stale
isCacheStaleAlways(s, organizationId, resourceType) == TRUE

\* isCacheStale: no stamp, or a stamp older than CACHE_MAX_AGE_MS
\* a staleness check that looks only for the stamp, not at its age
isCacheStaleWhenUnstamped(s, organizationId, resourceType) ==
    ~IsNum(RedisGet(s, getCacheStalenessKey(organizationId, resourceType)))

isCacheStale(s, organizationId, resourceType) ==
    LET cachedData == RedisGet(s, getCacheStalenessKey(organizationId, resourceType))
    IN  IF ~IsNum(cachedData) THEN TRUE
        ELSE now - cachedData.n > CACHE_MAX_AGE_MS

\* getQuotaUsageCachedValue, before its staleness check: the parsed value,
\* or null when the key is absent or does not hold a non-negative number
ParsedCachedValue(s, organizationId, quotaType) ==
    LET cachedData == RedisGet(s, getQuotaUsageCacheKey(organizationId, quotaType))
    IN  IF cachedData = Nil THEN Nil
        ELSE IF ~IsNum(cachedData) \/ cachedData.n < 0 THEN Nil
        ELSE cachedData

\* getCachedSandboxUsageOverview, its last step: the script that GETs the
\* three keys; what it yields is returned as it is
ReadSandboxUsage(s, organizationId) ==
    SandboxUsageOverview(RedisGet(s, getQuotaUsageCacheKey(organizationId, "cpu")),
                         RedisGet(s, getQuotaUsageCacheKey(organizationId, "memory")),
                         RedisGet(s, getQuotaUsageCacheKey(organizationId, "disk")))

\* excludeSandboxFromUsageOverview, given the state of the row found
\* ("none": no such sandbox)
\* an exclusion that takes the disk off with the compute, whatever the state
excludeSandboxComputeOnly(usageOverview, excludeSandboxId, excludedState) ==
    IF excludedState = "none" THEN usageOverview
    ELSE
      LET inCompute == excludedState \in SANDBOX_STATES_CONSUMING_COMPUTE
          cpuToSubtract == IF inCompute THEN SandboxRow(excludeSandboxId).cpu ELSE 0
          memToSubtract == IF inCompute THEN SandboxRow(excludeSandboxId).mem ELSE 0
          diskToSubtract == IF inCompute THEN SandboxRow(excludeSandboxId).disk ELSE 0
      IN  [usageOverview EXCEPT
             !.currentCpuUsage = Num(Max(0, ToNumber(@) - cpuToSubtract)),
             !.currentMemoryUsage = Num(Max(0, ToNumber(@) - memToSubtract)),
             !.currentDiskUsage = Num(Max(0, ToNumber(@) - diskToSubtract))]

excludeSandboxFromUsageOverview(usageOverview, excludeSandboxId, excludedState) ==
    IF excludedState = "none" THEN usageOverview
    ELSE
      LET inCompute == excludedState \in SANDBOX_STATES_CONSUMING_COMPUTE
          inDisk == excludedState \in SANDBOX_STATES_CONSUMING_DISK
          cpuToSubtract == IF inCompute THEN SandboxRow(excludeSandboxId).cpu ELSE 0
          memToSubtract == IF inCompute THEN SandboxRow(excludeSandboxId).mem ELSE 0
          diskToSubtract == IF inDisk THEN SandboxRow(excludeSandboxId).disk ELSE 0
      IN  [usageOverview EXCEPT
             !.currentCpuUsage = Num(Max(0, ToNumber(@) - cpuToSubtract)),
             !.currentMemoryUsage = Num(Max(0, ToNumber(@) - memToSubtract)),
             !.currentDiskUsage = Num(Max(0, ToNumber(@) - diskToSubtract))]

\* a pending value passed on as the script read it
UnvalidatedPending(v) == v

\* a pending value read by the script: null unless a non-negative number
ValidPending(v) == IF IsNum(v) /\ v.n >= 0 THEN v ELSE Nil

\* getCachedSandboxUsageOverviewWithPending, after the script and the
\* staleness check: null (NoOverview) if a current value is not a
\* non-negative number, else the overview with its pending values validated
ParsedUsageWithPending(raw) ==
    IF \/ ~IsNum(raw.currentCpuUsage) \/ raw.currentCpuUsage.n < 0
       \/ ~IsNum(raw.currentMemoryUsage) \/ raw.currentMemoryUsage.n < 0
       \/ ~IsNum(raw.currentDiskUsage) \/ raw.currentDiskUsage.n < 0
    THEN NoOverview
    ELSE [raw EXCEPT !.pendingCpuUsage = ValidPending(@),
                     !.pendingMemoryUsage = ValidPending(@),
                     !.pendingDiskUsage = ValidPending(@)]

\* an exclusion that takes the sandbox's amounts off the pending values too
excludeSandboxFromPendingToo(usageOverview, excludeSandboxId, excludedState) ==
    IF excludedState = "none" THEN usageOverview
    ELSE
      LET inCompute == excludedState \in SANDBOX_STATES_CONSUMING_COMPUTE
          inDisk == excludedState \in SANDBOX_STATES_CONSUMING_DISK
          cpuToSubtract == IF inCompute THEN SandboxRow(excludeSandboxId).cpu ELSE 0
          memToSubtract == IF inCompute THEN SandboxRow(excludeSandboxId).mem ELSE 0
          diskToSubtract == IF inDisk THEN SandboxRow(excludeSandboxId).disk ELSE 0
      IN  [usageOverview EXCEPT
             !.currentCpuUsage = Num(Max(0, ToNumber(@) - cpuToSubtract)),
             !.currentMemoryUsage = Num(Max(0, ToNumber(@) - memToSubtract)),
             !.currentDiskUsage = Num(Max(0, ToNumber(@) - diskToSubtract)),
             !.pendingCpuUsage = Num(Max(0, ToNumber(@) - cpuToSubtract)),
             !.pendingMemoryUsage = Num(Max(0, ToNumber(@) - memToSubtract)),
             !.pendingDiskUsage = Num(Max(0, ToNumber(@) - diskToSubtract))]

\* excludeSandboxFromUsageOverviewWithPending, given the state of the row found
excludeSandboxFromUsageOverviewWithPending(usageOverview, excludeSandboxId, excludedState) ==
    IF excludedState = "none" THEN usageOverview
    ELSE
      LET inCompute == excludedState \in SANDBOX_STATES_CONSUMING_COMPUTE
          inDisk == excludedState \in SANDBOX_STATES_CONSUMING_DISK
          cpuToSubtract == IF inCompute THEN SandboxRow(excludeSandboxId).cpu ELSE 0
          memToSubtract == IF inCompute THEN SandboxRow(excludeSandboxId).mem ELSE 0
          diskToSubtract == IF inDisk THEN SandboxRow(excludeSandboxId).disk ELSE 0
      IN  [usageOverview EXCEPT
             !.currentCpuUsage = Num(Max(0, ToNumber(@) - cpuToSubtract)),
             !.currentMemoryUsage = Num(Max(0, ToNumber(@) - memToSubtract)),
             !.currentDiskUsage = Num(Max(0, ToNumber(@) - diskToSubtract))]

----------------------------------------------------------------------------
(* The public read operations, one step per await *)

Ops == {"getSandboxUsageOverview", "getSnapshotUsageOverview", "getVolumeUsageOverview",
        "getSandboxUsageOverviewWithPending", "incrementPendingSandboxUsage",
        "decrementPendingSandboxUsage"}

OpQuotas(op) ==
    CASE op = "getSnapshotUsageOverview" -> <<"snapshot_count">>
      [] op = "getVolumeUsageOverview" -> <<"volume_count">>
      [] OTHER -> SandboxQuotas

OpResourceType(op) == getResourceTypeFromQuota(OpQuotas(op)[1])

\* the first step of the cached read of an operation
FirstPc(op) ==
    IF op = "getSandboxUsageOverviewWithPending" THEN "readWithPending"
    ELSE "getQuotaUsageCachedValue"

\* a return that leaves the call at once, whether or not it holds the lock
ReturnWithoutFinally(f, v) == [f EXCEPT !.ret = v, !.pc = "done"]

\* the call returns v: through the finally block if it holds the lock
Return(f, v) == [f EXCEPT !.ret = v, !.pc = IF f.locked THEN "unlock" ELSE "done"]

\* the usage is known: exclude the sandbox if asked to, else return
AfterUsage(f) ==
    IF f.excludeSandboxId # "none" THEN [f EXCEPT !.pc = "exclude"] ELSE Return(f, f.usage)

CacheHit(f, usageOverview) ==
    AfterUsage([f EXCEPT !.usage = usageOverview,
                         !.path = IF f.locked THEN "recheck" ELSE "hit"])

CacheMiss(f) ==
    [f EXCEPT !.usage = NoOverview, !.pc = IF f.locked THEN "fetch" ELSE "waitForLock"]

\* the frame of a call that begins
StartFrame(c, op, excludeSandboxId) ==
    [IdleCall EXCEPT !.pc = FirstPc(op), !.op = op, !.i = 1,
                     !.excludeSandboxId = excludeSandboxId,
                     !.n = calls[c].n + 1, !.t0 = now,
                     !.seen = IF op = "getSandboxUsageOverviewWithPending"
                              THEN {ReadSandboxUsageWithPending(store, "O1")}
                              ELSE {}]

Start(c, op, excludeSandboxId) ==
    /\ calls[c].pc \in {"idle", "done"}
    /\ calls[c].n < MaxCalls
    /\ calls' = [calls EXCEPT ![c] = StartFrame(c, op, excludeSandboxId)]
    /\ UNCHANGED <<now, store, lock, sandboxDb, snapshotDb, volumeDb, events, nEmitted>>

\* getQuotaUsageCachedValue: the GET of the counter
CachedGet(c) ==
    LET f == calls[c]
        parsedValue == ParsedCachedValue(store, f.organizationId, OpQuotas(f.op)[f.i])
    IN  /\ f.pc = "getQuotaUsageCachedValue"
        /\ calls' = [calls EXCEPT ![c] =
               IF parsedValue = Nil THEN CacheMiss(f)
               ELSE [f EXCEPT !.pc = "isCacheStale",
                              !.usage = CASE f.op = "getSnapshotUsageOverview" ->
                                               SnapshotUsageOverview(parsedValue)
                                          [] f.op = "getVolumeUsageOverview" ->
                                               VolumeUsageOverview(parsedValue)
                                          [] OTHER -> NoOverview]]
        /\ UNCHANGED <<now, store, lock, sandboxDb, snapshotDb, volumeDb, events, nEmitted>>

\* getQuotaUsageCachedValue: the staleness check that follows
CachedStale(c) ==
    LET f == calls[c]
        g == [f EXCEPT !.tChecked = now]
    IN  /\ f.pc = "isCacheStale"
        /\ calls' = [calls EXCEPT ![c] =
               IF isCacheStale(store, f.organizationId, OpResourceType(f.op)) THEN CacheMiss(f)
               ELSE IF f.i < Len(OpQuotas(f.op))
                    THEN [g EXCEPT !.i = f.i + 1, !.pc = "getQuotaUsageCachedValue"]
               ELSE IF f.op = "getSandboxUsageOverview" THEN [g EXCEPT !.pc = "read"]
               ELSE CacheHit(g, g.usage)]
        /\ UNCHANGED <<now, store, lock, sandboxDb, snapshotDb, volumeDb, events, nEmitted>>

\* a final read that also stamps the family as fetched now
CachedReadStampsFamily(c) ==
    LET f == calls[c]
    IN  /\ f.pc = "read"
        /\ store' = RedisSet(store, getCacheStalenessKey(f.organizationId, OpResourceType(f.op)),
                              now)
        /\ calls' = [calls EXCEPT ![c] = CacheHit(f, ReadSandboxUsage(store, f.organizationId))]
        /\ UNCHANGED <<now, lock, sandboxDb, snapshotDb, volumeDb, events, nEmitted>>

\* getCachedSandboxUsageOverview: the three keys are read again, and returned
CachedRead(c) ==
    LET f == calls[c]
    IN  /\ f.pc = "read"
        /\ calls' = [calls EXCEPT ![c] = CacheHit(f, ReadSandboxUsage(store, f.organizationId))]
        /\ UNCHANGED <<now, store, lock, sandboxDb, snapshotDb, volumeDb, events, nEmitted>>

CallLock(c) ==
    LET f == calls[c]
    IN  /\ f.pc = "waitForLock"
        /\ waitForLock(FetchLockKey(f.organizationId, OpResourceType(f.op)), c)
        /\ calls' = [calls EXCEPT ![c] = [f EXCEPT !.locked = TRUE, !.tLocked = now, !.i = 1,
                                                   !.pc = FirstPc(f.op)]]
        /\ UNCHANGED <<now, store, sandboxDb, snapshotDb, volumeDb, events, nEmitted>>

\* fetch...UsageFromDb: the query
Fetch(c) ==
    LET f == calls[c]
        fromDb == CASE f.op = "getSnapshotUsageOverview" ->
                         SnapshotUsageOverview(Num(SnapshotCount(f.organizationId)))
                    [] f.op = "getVolumeUsageOverview" ->
                         VolumeUsageOverview(Num(VolumeCount(f.organizationId)))
                    [] OTHER -> SandboxUsageMetrics(f.organizationId)
    IN  /\ f.pc = "fetch"
        /\ calls' = [calls EXCEPT ![c] = [f EXCEPT !.usage = fromDb, !.path = "fetch", !.pc = "setex"]]
        /\ UNCHANGED <<now, store, lock, sandboxDb, snapshotDb, volumeDb, events, nEmitted>>

\* a cache write that writes the first key of the family only
CacheResultsFirstKeyOnly(s, organizationId, op, usageOverview) ==
    CASE op = "getSnapshotUsageOverview" ->
           RedisSetex(s, getQuotaUsageCacheKey(organizationId, "snapshot_count"),
                      CACHE_TTL_SECONDS, usageOverview.currentSnapshotUsage.n)
      [] op = "getVolumeUsageOverview" ->
           RedisSetex(s, getQuotaUsageCacheKey(organizationId, "volume_count"),
                      CACHE_TTL_SECONDS, usageOverview.currentVolumeUsage.n)
      [] OTHER ->
           RedisSetex(s, getQuotaUsageCacheKey(organizationId, "cpu"),
                      CACHE_TTL_SECONDS, usageOverview.currentCpuUsage.n)

\* fetch...UsageFromDb: the counters are written, with their TTL
CacheResults(s, organizationId, op, usageOverview) ==
    CASE op = "getSnapshotUsageOverview" ->
           RedisSetex(s, getQuotaUsageCacheKey(organizationId, "snapshot_count"),
                      CACHE_TTL_SECONDS, usageOverview.currentSnapshotUsage.n)
      [] op = "getVolumeUsageOverview" ->
           RedisSetex(s, getQuotaUsageCacheKey(organizationId, "volume_count"),
                      CACHE_TTL_SECONDS, usageOverview.currentVolumeUsage.n)
      [] OTHER ->
           RedisSetex(
             RedisSetex(
               RedisSetex(s, getQuotaUsageCacheKey(organizationId, "cpu"),
                          CACHE_TTL_SECONDS, usageOverview.currentCpuUsage.n),
               getQuotaUsageCacheKey(organizationId, "memory"),
               CACHE_TTL_SECONDS, usageOverview.currentMemoryUsage.n),
             getQuotaUsageCacheKey(organizationId, "disk"),
             CACHE_TTL_SECONDS, usageOverview.currentDiskUsage.n)

\* a rehydrate that goes on with the value once the counters are written,
\* without the staleness reset
SetexWithoutReset(c) ==
    LET f == calls[c]
    IN  /\ f.pc = "setex"
        /\ store' = CacheResults(store, f.organizationId, f.op, f.usage)
        /\ calls' = Observe([calls EXCEPT ![c] =
               IF f.op = "getSandboxUsageOverviewWithPending"
               THEN [f EXCEPT !.pc = "getQuotaPendingUsage", !.i = 1]
               ELSE AfterUsage(f)], store')
        /\ UNCHANGED <<now, lock, sandboxDb, snapshotDb, volumeDb, events, nEmitted>>

Setex(c) ==
    LET f == calls[c]
    IN  /\ f.pc = "setex"
        /\ store' = CacheResults(store, f.organizationId, f.op, f.usage)
        /\ calls' = Observe([calls EXCEPT ![c] = [f EXCEPT !.pc = "resetCacheStaleness"]], store')
        /\ UNCHANGED <<now, lock, sandboxDb, snapshotDb, volumeDb, events, nEmitted>>

\* resetCacheStaleness: fetched_at is now
\* a reset that leaves the stamp as it was
resetCacheStalenessKeepsStamp(s, organizationId, resourceType) == s

resetCacheStaleness(s, organizationId, resourceType) ==
    RedisSet(s, getCacheStalenessKey(organizationId, resourceType), now)

ResetStaleness(c) ==
    LET f == calls[c]
    IN  /\ f.pc = "resetCacheStaleness"
        /\ store' = resetCacheStaleness(store, f.organizationId, OpResourceType(f.op))
        /\ calls' = [calls EXCEPT ![c] =
               IF f.op = "getSandboxUsageOverviewWithPending"
               THEN [f EXCEPT !.pc = "getQuotaPendingUsage", !.i = 1]
               ELSE AfterUsage(f)]
        /\ UNCHANGED <<now, lock, sandboxDb, snapshotDb, volumeDb, events, nEmitted>>

\* excludeSandboxFromUsageOverview: the row is looked up, its share subtracted
Exclude(c) ==
    LET f == calls[c]
        found == sandboxDb[f.excludeSandboxId]
    IN  /\ f.pc = "exclude"
        /\ calls' = [calls EXCEPT ![c] =
               Return([f EXCEPT !.excluded = found],
                      IF f.op = "getSandboxUsageOverviewWithPending"
                      THEN excludeSandboxFromUsageOverviewWithPending(f.usage, f.excludeSandboxId, found)
                      ELSE excludeSandboxFromUsageOverview(f.usage, f.excludeSandboxId, found))]
        /\ UNCHANGED <<now, store, lock, sandboxDb, snapshotDb, volumeDb, events, nEmitted>>

\* a finally block that completes the call and leaves the lock held
CallUnlockKeepsLock(c) ==
    LET f == calls[c]
    IN  /\ f.pc = "unlock"
        /\ calls' = [calls EXCEPT ![c] = [f EXCEPT !.pc = "done", !.locked = FALSE,
                                                   !.tLocked = 0]]
        /\ UNCHANGED <<now, store, lock, sandboxDb, snapshotDb, volumeDb, events, nEmitted>>

\* an unlock that deletes the key of the lock, whoever owns it
CallUnlockAnyOwner(c) ==
    LET f == calls[c]
    IN  /\ f.pc = "unlock"
        /\ lock' = [lock EXCEPT ![FetchLockKey(f.organizationId, OpResourceType(f.op))] = Free]
        /\ calls' = [calls EXCEPT ![c] = [f EXCEPT !.pc = "done", !.locked = FALSE,
                                                   !.tLocked = 0]]
        /\ UNCHANGED <<now, store, sandboxDb, snapshotDb, volumeDb, events, nEmitted>>

CallUnlock(c) ==
    LET f == calls[c]
    IN  /\ f.pc = "unlock"
        /\ unlock(FetchLockKey(f.organizationId, OpResourceType(f.op)), c)
        /\ calls' = [calls EXCEPT ![c] = [f EXCEPT !.pc = "done", !.locked = FALSE,
                                                   !.tLocked = 0]]
        /\ UNCHANGED <<now, store, sandboxDb, snapshotDb, volumeDb, events, nEmitted>>

\* getCachedSandboxUsageOverviewWithPending: the script that reads the six keys
CachedReadWithPending(c) ==
    LET f == calls[c]
        raw == ReadSandboxUsageWithPending(store, f.organizationId)
    IN  /\ f.pc = "readWithPending"
        /\ calls' = [calls EXCEPT ![c] =
               IF \/ raw.currentCpuUsage = Nil
                  \/ raw.currentMemoryUsage = Nil
                  \/ raw.currentDiskUsage = Nil
               THEN CacheMiss(f)
               ELSE [f EXCEPT !.usage = raw, !.pc = "isCacheStaleWithPending"]]
        /\ UNCHANGED <<now, store, lock, sandboxDb, snapshotDb, volumeDb, events, nEmitted>>

\* getCachedSandboxUsageOverviewWithPending: the staleness check, then the parsing
CachedStaleWithPending(c) ==
    LET f == calls[c]
        g == [f EXCEPT !.tChecked = now]
        parsed == ParsedUsageWithPending(f.usage)
    IN  /\ f.pc = "isCacheStaleWithPending"
        /\ calls' = [calls EXCEPT ![c] =
               IF isCacheStale(store, f.organizationId, "sandbox") THEN CacheMiss(f)
               ELSE IF parsed = NoOverview THEN CacheMiss(g)
               ELSE CacheHit(g, parsed)]
        /\ UNCHANGED <<now, store, lock, sandboxDb, snapshotDb, volumeDb, events, nEmitted>>

\* getCachedSandboxPendingUsageOverview: one getQuotaPendingUsage per kind
PendingGet(c) ==
    LET f == calls[c]
        v == getQuotaPendingUsage(store, f.organizationId, SandboxQuotas[f.i])
        g == [f EXCEPT !.usage = CASE f.i = 1 -> [f.usage EXCEPT !.pendingCpuUsage = v]
                                   [] f.i = 2 -> [f.usage EXCEPT !.pendingMemoryUsage = v]
                                   [] OTHER -> [f.usage EXCEPT !.pendingDiskUsage = v]]
    IN  /\ f.pc = "getQuotaPendingUsage"
        /\ calls' = [calls EXCEPT ![c] =
               IF f.i < 3 THEN [g EXCEPT !.i = f.i + 1] ELSE AfterUsage(g)]
        /\ UNCHANGED <<now, store, lock, sandboxDb, snapshotDb, volumeDb, events, nEmitted>>

----------------------------------------------------------------------------
(* Reserving and releasing pending usage *)

\* the amounts callers reserve, and release (an amount may be left out)
IncrementAmounts == {<<1, 1, 1>>}
DecrementAmounts == {<<Num(1), Num(1), Num(1)>>, <<Num(1), Undefined, Undefined>>}

ReserverCall(c, op, amounts, excludeSandboxId) ==
    [IdleCall EXCEPT !.op = op, !.amounts = amounts, !.flags = <<TRUE, TRUE, TRUE>>,
                     !.excludeSandboxId = excludeSandboxId, !.n = calls[c].n + 1]

\* incrementPendingSandboxUsage with a sandbox to exclude: the call begins
StartIncrement(c, amounts, excludeSandboxId) ==
    /\ calls[c].pc \in {"idle", "done"}
    /\ calls[c].n < MaxCalls
    /\ excludeSandboxId # "none"
    /\ calls' = [calls EXCEPT ![c] =
           [ReserverCall(c, "incrementPendingSandboxUsage", amounts, excludeSandboxId)
               EXCEPT !.pc = "findOne"]]
    /\ UNCHANGED <<now, store, lock, sandboxDb, snapshotDb, volumeDb, events, nEmitted>>

\* incrementPendingSandboxUsage: the excluded sandbox is looked up; a kind its
\* state consumes is not to be incremented
FindExcluded(c) ==
    LET f == calls[c]
        found == sandboxDb[f.excludeSandboxId]
    IN  /\ f.pc = "findOne"
        /\ calls' = [calls EXCEPT ![c] =
               [f EXCEPT !.pc = "incrementScript", !.excluded = found,
                         !.flags = <<found \notin SANDBOX_STATES_CONSUMING_COMPUTE,
                                     found \notin SANDBOX_STATES_CONSUMING_COMPUTE,
                                     found \notin SANDBOX_STATES_CONSUMING_DISK>>]]
        /\ UNCHANGED <<now, store, lock, sandboxDb, snapshotDb, volumeDb, events, nEmitted>>

\* incrementPendingSandboxUsage: the script, after the lookup
IncrementScript(c) ==
    LET f == calls[c]
    IN  /\ f.pc = "incrementScript"
        /\ store' = incrementPendingScript(store, f.organizationId, f.flags, f.amounts)
        /\ calls' = Observe([calls EXCEPT ![c] = [f EXCEPT !.pc = "done"]], store')
        /\ UNCHANGED <<now, lock, sandboxDb, snapshotDb, volumeDb, events, nEmitted>>

\* incrementPendingSandboxUsage with no sandbox to exclude: the script is the
\* call's only await
Increment(c, amounts) ==
    LET f == ReserverCall(c, "incrementPendingSandboxUsage", amounts, "none")
    IN  /\ calls[c].pc \in {"idle", "done"}
        /\ calls[c].n < MaxCalls
        /\ store' = incrementPendingScript(store, f.organizationId, f.flags, f.amounts)
        /\ calls' = Observe([calls EXCEPT ![c] = [f EXCEPT !.pc = "done"]], store')
        /\ UNCHANGED <<now, lock, sandboxDb, snapshotDb, volumeDb, events, nEmitted>>

\* decrementPendingSandboxUsage: the script is the call's only await
Decrement(c, amounts) ==
    LET f == ReserverCall(c, "decrementPendingSandboxUsage", amounts, "none")
    IN  /\ calls[c].pc \in {"idle", "done"}
        /\ calls[c].n < MaxCalls
        /\ store' = decrementPendingScript(store, f.organizationId, f.amounts)
        /\ calls' = Observe([calls EXCEPT ![c] = [f EXCEPT !.pc = "done"]], store')
        /\ UNCHANGED <<now, lock, sandboxDb, snapshotDb, volumeDb, events, nEmitted>>

----------------------------------------------------------------------------
(* Spec: the sandbox family. Callers of getSandboxUsageOverview, sandbox   *)
(* events, the clock.                                                       *)

Next ==
    \/ Tick
    \/ \E id \in SandboxIds : SandboxCreate(id)
    \/ \E id \in SandboxIds, st \in SandboxStates : SandboxUpdateState(id, st)
    \/ \E e \in events : HandlerLock(e)
    \/ \E e \in events : HandlerUpdate(e)
    \/ \E e \in events : HandlerUnlock(e)
    \/ \E c \in Readers, ex \in {"none"} \cup SandboxIds : Start(c, "getSandboxUsageOverview", ex)
    \/ \E c \in Readers : CachedGet(c)
    \/ \E c \in Readers : CachedStale(c)
    \/ \E c \in Readers : CachedRead(c)
    \/ \E c \in Readers : CallLock(c)
    \/ \E c \in Readers : Fetch(c)
    \/ \E c \in Readers : Setex(c)
    \/ \E c \in Readers : ResetStaleness(c)
    \/ \E c \in Readers : Exclude(c)
    \/ \E c \in Readers : CallUnlock(c)

Spec == Init /\ [][Next]_vars

----------------------------------------------------------------------------
(* Properties of the sandbox family (Spec) *)

Returned(c) == calls[c].pc = "done"
OnCacheHit(c) == calls[c].path \in {"hit", "recheck"}
IsNonNegativeNumber(v) == IsNum(v) /\ v.n >= 0
FetchedAt(organizationId, resourceType) ==
    RedisGet(store, getCacheStalenessKey(organizationId, resourceType))

\* C1: every value a get...UsageOverview call returns is a number >= 0
C1_NonNegativeRead ==
    \A c \in Callers :
        Returned(c) =>
            /\ calls[c].op = "getSandboxUsageOverview" =>
                   /\ IsNonNegativeNumber(calls[c].ret.currentCpuUsage)
                   /\ IsNonNegativeNumber(calls[c].ret.currentMemoryUsage)
                   /\ IsNonNegativeNumber(calls[c].ret.currentDiskUsage)
            /\ calls[c].op = "getSnapshotUsageOverview" =>
                   IsNonNegativeNumber(calls[c].ret.currentSnapshotUsage)
            /\ calls[c].op = "getVolumeUsageOverview" =>
                   IsNonNegativeNumber(calls[c].ret.currentVolumeUsage)

Quiescent == events = {} /\ \A c \in Callers : calls[c].pc \in {"idle", "done"}

NotBelow(organizationId, quotaType, aggregate) ==
    LET v == RedisGet(store, getQuotaUsageCacheKey(organizationId, quotaType))
    IN  (IsNum(v) /\ ~isCacheStale(store, organizationId, "sandbox")) => v.n >= aggregate.n

\* C2: once every emitted event is handled and no call is in progress, a
\* confirmed cpu, memory or disk counter that is present and not stale is
\* not below the aggregate of the sandbox table
C2_SafeOverApproximation ==
    Quiescent =>
        \A o \in Organizations :
            /\ NotBelow(o, "cpu", SandboxUsageMetrics(o).currentCpuUsage)
            /\ NotBelow(o, "memory", SandboxUsageMetrics(o).currentMemoryUsage)
            /\ NotBelow(o, "disk", SandboxUsageMetrics(o).currentDiskUsage)

\* the amounts of sandbox id that its state consumes
ExpectedDelta(id, state) ==
    LET r == SandboxRow(id)
    IN  CASE state \in SANDBOX_STATES_CONSUMING_COMPUTE /\ state \notin SANDBOX_STATES_CONSUMING_DISK
               -> <<r.cpu, r.mem, 0>>
          [] state \in SANDBOX_STATES_CONSUMING_COMPUTE /\ state \in SANDBOX_STATES_CONSUMING_DISK
               -> <<r.cpu, r.mem, r.disk>>
          [] state \notin SANDBOX_STATES_CONSUMING_COMPUTE /\ state \in SANDBOX_STATES_CONSUMING_DISK
               -> <<0, 0, r.disk>>
          [] OTHER -> <<0, 0, 0>>

\* C6: getSandboxUsageOverview(O, X) returns max(0, full - D) per kind, D
\* being X's amounts for the consume-sets its state is in; the full usage
\* when X is not found
C6_ExclusionCorrectness ==
    \A c \in Callers :
        LET f == calls[c]
            D == ExpectedDelta(f.excludeSandboxId, f.excluded)
        IN  (Returned(c) /\ f.op = "getSandboxUsageOverview" /\ f.excludeSandboxId # "none") =>
                IF f.excluded = "none" THEN f.ret = f.usage
                ELSE /\ f.ret.currentCpuUsage = Num(Max(0, ToNumber(f.usage.currentCpuUsage) - D[1]))
                     /\ f.ret.currentMemoryUsage = Num(Max(0, ToNumber(f.usage.currentMemoryUsage) - D[2]))
                     /\ f.ret.currentDiskUsage = Num(Max(0, ToNumber(f.usage.currentDiskUsage) - D[3]))

\* a call that excluded a stopped sandbox from a cached usage that counted it
C6_Witness ==
    \E c \in Callers :
        /\ Returned(c) /\ calls[c].op = "getSandboxUsageOverview"
        /\ calls[c].excluded = "stopped" /\ OnCacheHit(c)
        /\ calls[c].usage.currentCpuUsage = Num(1)
        /\ calls[c].ret.currentCpuUsage = Num(1)
        /\ calls[c].usage.currentDiskUsage = Num(3)
        /\ calls[c].ret.currentDiskUsage = Num(0)

\* C8 as stated: at the moment a call returns on a cache-hit path, fetched_at
\* exists and now - fetched_at <= CACHE_MAX_AGE_MS
C8_StalenessBoundAtReturn ==
    [][\A c \in Callers :
          (calls[c].pc # "done" /\ calls'[c].pc = "done" /\ calls'[c].path \in {"hit", "recheck"}) =>
              LET stamp == RedisGet(store', getCacheStalenessKey(calls'[c].organizationId,
                                                                 OpResourceType(calls'[c].op)))
              IN  IsNum(stamp) /\ now' - stamp.n <= CACHE_MAX_AGE_MS]_vars

\* C8: a call that returned on a cache-hit path found fetched_at present and
\* at most CACHE_MAX_AGE_MS old at the time of its last staleness check
C8_StalenessBoundAtCheck ==
    \A c \in Callers :
        (Returned(c) /\ OnCacheHit(c)) =>
            LET stamp == FetchedAt(calls[c].organizationId, OpResourceType(calls[c].op))
            IN  IsNum(stamp) /\ calls[c].tChecked - stamp.n <= CACHE_MAX_AGE_MS

\* a call returned on a cache-hit path, and the clock has advanced since its
\* last staleness check and taken the stamp past the maximum age
C8_Witness ==
    \E c \in Callers :
        /\ Returned(c) /\ OnCacheHit(c)
        /\ calls[c].tChecked < now
        /\ now - FetchedAt(calls[c].organizationId, OpResourceType(calls[c].op)).n
               > CACHE_MAX_AGE_MS

StampsOf(s) == [o \in Organizations, r \in ResourceTypes |-> RedisGet(s, getCacheStalenessKey(o, r))]

\* C9: a call returns with a fetched_at that is at most CACHE_MAX_AGE_MS older
\* than the start of the call: a family that was stale when the call started
\* has been rehydrated and stamped anew, whether or not its counters were
\* still present; and no step of an event handler changes fetched_at
C9_ForcedRehydrate ==
    /\ [](\A c \in Callers :
            Returned(c) =>
                LET stamp == FetchedAt(calls[c].organizationId, OpResourceType(calls[c].op))
                IN  IsNum(stamp) /\ calls[c].t0 - stamp.n <= CACHE_MAX_AGE_MS)
    /\ [][(\E e \in events : Handler(e)) => StampsOf(store') = StampsOf(store)]_vars

\* a call is about to query the database although the three counters are
\* present and valid: the stamp is too old
C9_Witness ==
    \E c \in Callers :
        /\ calls[c].pc = "fetch"
        /\ \A i \in 1..3 : ParsedCachedValue(store, calls[c].organizationId, SandboxQuotas[i]) # Nil
        /\ IsNum(FetchedAt(calls[c].organizationId, "sandbox"))
        /\ isCacheStale(store, calls[c].organizationId, "sandbox")

\* C10: an overview returned from the cache has no missing (null) field
C10_NoMissingField ==
    \A c \in Callers :
        (Returned(c) /\ calls[c].op = "getSandboxUsageOverview" /\ OnCacheHit(c)) =>
            /\ calls[c].ret.currentCpuUsage # Nil
            /\ calls[c].ret.currentMemoryUsage # Nil
            /\ calls[c].ret.currentDiskUsage # Nil

----------------------------------------------------------------------------
(* SpecCount: the snapshot and volume families *)

NextCount ==
    \/ Tick
    \/ \E id \in SnapshotIds : SnapshotCreate(id)
    \/ \E id \in SnapshotIds, st \in SnapshotStates : SnapshotUpdateState(id, st)
    \/ \E id \in VolumeIds : VolumeCreate(id)
    \/ \E id \in VolumeIds, st \in VolumeStates : VolumeUpdateState(id, st)
    \/ \E e \in events : HandlerLock(e)
    \/ \E e \in events : HandlerUpdate(e)
    \/ \E e \in events : HandlerUnlock(e)
    \/ \E c \in Readers, op \in {"getSnapshotUsageOverview", "getVolumeUsageOverview"} :
           Start(c, op, "none")
    \/ \E c \in Readers : CachedGet(c)
    \/ \E c \in Readers : CachedStale(c)
    \/ \E c \in Readers : CallLock(c)
    \/ \E c \in Readers : Fetch(c)
    \/ \E c \in Readers : Setex(c)
    \/ \E c \in Readers : ResetStaleness(c)
    \/ \E c \in Readers : CallUnlock(c)

SpecCount == Init /\ [][NextCount]_vars

\* the delta of a count whose consume-set is the complement of ignoredStates
ClaimedCountDelta(oldState, newState, ignoredStates) ==
    IF oldState \notin ignoredStates /\ newState \in ignoredStates THEN 0 - 1
    ELSE IF oldState \in ignoredStates /\ newState \notin ignoredStates THEN 1
    ELSE 0

CountDeltaAsClaimed(e, quotaType, ignoredStates) ==
    LET k == getQuotaUsageCacheKey(e.organizationId, quotaType)
        claimed == ClaimedCountDelta(e.oldState, e.newState, ignoredStates)
    IN  /\ (HandlerUpdate(e) /\ RedisExists(store, k)) =>
               RedisGet(store', k) = Num(RedisGet(store, k).n + claimed)
        /\ (HandlerLock(e) /\ claimed # 0) => HandlerUpdates(e) # <<>>

\* C5: a SnapshotStateUpdated or VolumeStateUpdated event changes the cached
\* count by -1 when the entity leaves the counted states, by +1 when it enters
\* them, and by 0 otherwise
C5_CountDeltaIsComplement ==
    [][\A e \in events :
          /\ e.type = "SnapshotStateUpdated" =>
                 CountDeltaAsClaimed(e, "snapshot_count", SNAPSHOT_USAGE_IGNORED_STATES)
          /\ e.type = "VolumeStateUpdated" =>
                 CountDeltaAsClaimed(e, "volume_count", VOLUME_USAGE_IGNORED_STATES)]_vars

----------------------------------------------------------------------------
(* SpecSettle: reservations and their settlement. A caller reserves and   *)
(* releases pending usage while the sandbox events of the organization are *)
(* handled; no confirmed counter is cached, nothing reads.                 *)

NextSettle ==
    \/ Tick
    \/ \E id \in SandboxIds : SandboxCreate(id)
    \/ \E id \in SandboxIds, st \in SandboxStates : SandboxUpdateState(id, st)
    \/ \E e \in events : HandlerLock(e)
    \/ \E e \in events : HandlerUpdate(e)
    \/ \E e \in events : HandlerUnlock(e)
    \/ \E c \in Reservers, a \in IncrementAmounts, ex \in SandboxIds :
           StartIncrement(c, a, ex)
    \/ \E c \in Reservers : FindExcluded(c)
    \/ \E c \in Reservers : IncrementScript(c)
    \/ \E c \in Reservers, a \in IncrementAmounts : Increment(c, a)
    \/ \E c \in Reservers, a \in DecrementAmounts : Decrement(c, a)

SpecSettle == Init /\ [][NextSettle]_vars

\* the update a handler is about to make
NextUpdate(e) == [quotaType |-> Head(e.todo)[1], delta |-> Head(e.todo)[2]]

Min(a, b) == IF a <= b THEN a ELSE b

PendingValue(s, organizationId, quotaType) ==
    RedisGet(s, getPendingQuotaUsageCacheKey(organizationId, quotaType))

\* C3: updateQuotaUsage called while the confirmed key of its kind is absent
\* changes no key of the store: the confirmed key stays absent and the pending
\* counter of the kind keeps its value.
C3_AbsentIsNoOp ==
    [][\A e \in events :
           (/\ HandlerUpdate(e)
            /\ ~RedisExists(store, getQuotaUsageCacheKey(e.organizationId,
                                                         NextUpdate(e).quotaType)))
           => store' = store]_vars

\* C4: updateQuotaUsage with a positive delta decrements the pending counter
\* of its kind by min(pending, delta), and no updateQuotaUsage that starts
\* from non-negative pending counters leaves a pending counter below zero.
C4_PendingSettlesToZero ==
    [][\A e \in events :
           HandlerUpdate(e) =>
               LET u == NextUpdate(e)
                   before == PendingValue(store, e.organizationId, u.quotaType)
                   after == PendingValue(store', e.organizationId, u.quotaType)
               IN  /\ (IsNum(before) /\ before.n >= 0 /\ u.delta > 0)
                          => after = Num(before.n - Min(before.n, u.delta))
                   /\ (\A q \in QuotaTypes :
                           LET v == PendingValue(store, e.organizationId, q)
                           IN  IsNum(v) => v.n >= 0)
                          => (\A q \in QuotaTypes :
                                  LET w == PendingValue(store', e.organizationId, q)
                                  IN  IsNum(w) => w.n >= 0)]_vars

----------------------------------------------------------------------------
(* SpecPending: the dual view of the sandbox family. One caller reads with *)
(* getSandboxUsageOverviewWithPending while another reserves and releases  *)
(* pending usage.                                                          *)

NextPending ==
    \/ Tick
    \/ \E c \in Readers, ex \in {"none"} \cup SandboxIds :
           Start(c, "getSandboxUsageOverviewWithPending", ex)
    \/ \E c \in Readers : CachedReadWithPending(c)
    \/ \E c \in Readers : CachedStaleWithPending(c)
    \/ \E c \in Readers : CallLock(c)
    \/ \E c \in Readers : Fetch(c)
    \/ \E c \in Readers : Setex(c)
    \/ \E c \in Readers : ResetStaleness(c)
    \/ \E c \in Readers : PendingGet(c)
    \/ \E c \in Readers : Exclude(c)
    \/ \E c \in Readers : CallUnlock(c)
    \/ \E c \in Reservers, a \in IncrementAmounts, ex \in SandboxIds :
           StartIncrement(c, a, ex)
    \/ \E c \in Reservers : FindExcluded(c)
    \/ \E c \in Reservers : IncrementScript(c)
    \/ \E c \in Reservers, a \in IncrementAmounts : Increment(c, a)
    \/ \E c \in Reservers, a \in DecrementAmounts : Decrement(c, a)

SpecPending == Init /\ [][NextPending]_vars

PendingOf(o) == <<o.pendingCpuUsage, o.pendingMemoryUsage, o.pendingDiskUsage>>

\* the pending values a reader takes from the store as it stands in view v
PendingView(v) ==
    <<ValidPending(v.pendingCpuUsage), ValidPending(v.pendingMemoryUsage),
      ValidPending(v.pendingDiskUsage)>>

\* C7: every result of getSandboxUsageOverviewWithPending, on the cache-hit
\* path and on the rehydrate path, reports pending cpu, memory and disk as they
\* stood together at one single point of the call between store scripts.
C7_PendingAtomicity ==
    \A c \in Callers :
        (Returned(c) /\ calls[c].op = "getSandboxUsageOverviewWithPending")
        => \E v \in calls[c].seen : PendingOf(calls[c].ret) = PendingView(v)

----------------------------------------------------------------------------
(* Reserving and releasing, checked under SpecSettle *)

\* caller c has just completed a call of op
Completes(c, op) ==
    /\ calls'[c] # calls[c]
    /\ calls'[c].pc = "done"
    /\ calls'[c].op = op

PendingKeys(organizationId) ==
    {getPendingQuotaUsageCacheKey(organizationId, SandboxQuotas[i]) : i \in 1..3}

\* the flags the claim gives a call that excluded a sandbox found in state st
\* ("none": no sandbox to exclude, or none found)
ClaimedFlags(st) ==
    <<st \notin SANDBOX_STATES_CONSUMING_COMPUTE, st \notin SANDBOX_STATES_CONSUMING_COMPUTE,
      st \notin SANDBOX_STATES_CONSUMING_DISK>>

\* C11: incrementPendingSandboxUsage increments, in one script, exactly the
\* pending counters whose flag is true, each by the requested amount and with
\* its TTL refreshed, and leaves every other key as it was; the cpu and memory
\* flags are false iff the excluded sandbox exists in a state of COMPUTE, the
\* disk flag is false iff it exists in a state of DISK, and all three are
\* true with no sandbox to exclude or none found.
C11_IncrementByFlags ==
    /\ [](\A c \in Callers :
            (calls[c].op = "incrementPendingSandboxUsage"
             /\ calls[c].pc \in {"incrementScript", "done"})
            => calls[c].flags = ClaimedFlags(calls[c].excluded))
    /\ [][\A c \in Callers :
            Completes(c, "incrementPendingSandboxUsage") =>
                LET f == calls'[c]
                IN  /\ \A i \in 1..3 :
                          LET k == getPendingQuotaUsageCacheKey(f.organizationId, SandboxQuotas[i])
                          IN  IF f.flags[i]
                              THEN /\ store'[k].val = Num(ToNumber(store[k].val) + f.amounts[i])
                                   /\ store'[k].exp = now + CACHE_TTL_SECONDS
                              ELSE store'[k] = store[k]
                    /\ \A k \in DOMAIN store \ PendingKeys(f.organizationId) :
                          store'[k] = store[k]]_vars

\* a reservation that excluded a stopped sandbox: cpu and memory were
\* incremented, disk was not
C11_Witness ==
    \E c \in Callers :
        /\ calls[c].pc = "done" /\ calls[c].op = "incrementPendingSandboxUsage"
        /\ calls[c].excluded = "stopped"
        /\ calls[c].flags = <<TRUE, TRUE, FALSE>>
        /\ PendingValue(store, calls[c].organizationId, "cpu") = Num(1)
        /\ PendingValue(store, calls[c].organizationId, "disk") = Nil

\* C12: decrementPendingSandboxUsage changes only the pending counters of the
\* kinds for which an amount was supplied; the pending key of a kind that was
\* not supplied keeps its value, its presence or absence and its expiry, and
\* no other key changes.
C12_DecrementOnlySupplied ==
    [][\A c \in Callers :
          Completes(c, "decrementPendingSandboxUsage") =>
              LET f == calls'[c]
              IN  /\ \A i \in 1..3 :
                        f.amounts[i] = Undefined =>
                            LET k == getPendingQuotaUsageCacheKey(f.organizationId,
                                                                  SandboxQuotas[i])
                            IN  store'[k] = store[k]
                  /\ \A k \in DOMAIN store \ PendingKeys(f.organizationId) :
                        store'[k] = store[k]]_vars

\* the amounts of the round trips
RoundTripAmounts == {<<1, 1, 1>>, <<1, 2, 3>>, <<4, 8, 20>>}

\* the store after incrementPendingSandboxUsage(O, c, m, d) and then, with
\* nothing in between, decrementPendingSandboxUsage(O, c, m, d)
RoundTrip(s, organizationId, a) ==
    decrementPendingScript(
        incrementPendingScript(s, organizationId, <<TRUE, TRUE, TRUE>>, a),
        organizationId, <<Num(a[1]), Num(a[2]), Num(a[3])>>)

\* C13: for any amounts and any prior pending values (an absent counter
\* counted as zero), incrementPendingSandboxUsage followed, with no other
\* operation on those keys in between, by decrementPendingSandboxUsage of the
\* same amounts leaves every pending counter at its prior value.
C13_RoundTrip ==
    \A o \in Organizations, a \in RoundTripAmounts :
        \A i \in 1..3 :
            ToNumber(PendingValue(RoundTrip(store, o, a), o, SandboxQuotas[i]))
                = ToNumber(PendingValue(store, o, SandboxQuotas[i]))

\* a caller reserved and then released the same amounts: the counters, absent
\* before, are at zero
C13_Witness ==
    \E c \in Callers :
        /\ calls[c].pc = "done" /\ calls[c].op = "decrementPendingSandboxUsage"
        /\ calls[c].n = 2
        /\ calls[c].amounts = <<Num(1), Num(1), Num(1)>>
        /\ \A i \in 1..3 : PendingValue(store, calls[c].organizationId, SandboxQuotas[i]) = Num(0)

----------------------------------------------------------------------------
(* SpecSettleCached: settlement into cached counters. The organization has *)
(* just been read cold: its confirmed counters hold the aggregate of the   *)
(* still empty sandbox table and the family is stamped. A caller reserves  *)
(* and releases the amounts of the sandbox while its events are handled; a *)
(* script of a handler may fail.                                           *)

\* the store a cold getSandboxUsageOverview leaves: fetchSandboxUsageFromDb
\* has cached the aggregate and reset the staleness
ColdRead(s, organizationId) ==
    resetCacheStaleness(
        CacheResults(s, organizationId, "getSandboxUsageOverview",
                     SandboxUsageMetrics(organizationId)),
        organizationId, "sandbox")

InitCached ==
    /\ now = 0
    /\ lock = [k \in LockKeys |-> Free]
    /\ sandboxDb = [id \in SandboxIds |-> "none"]
    /\ snapshotDb = [id \in SnapshotIds |-> "none"]
    /\ volumeDb = [id \in VolumeIds |-> "none"]
    /\ events = {}
    /\ nEmitted = 0
    /\ calls = [c \in Callers |-> IdleCall]
    /\ store = ColdRead([k \in Keys |-> Absent], "O1")

\* a handler that catches the error of each update by itself: the update that
\* throws is skipped and the ones after it are still made
HandlerFailSkipsOne(e) ==
    /\ e.pc = "update"
    /\ events' = (events \ {e})
                 \cup {[e EXCEPT !.pc = AfterUpdates(Tail(e.todo)), !.todo = Tail(e.todo),
                                  !.error = "logged"]}
    /\ UNCHANGED <<now, store, lock, sandboxDb, snapshotDb, volumeDb, nEmitted, calls>>

\* a script of the handler throws: the error is logged, the updates that
\* remain are skipped and the lock is released
HandlerFail(e) ==
    /\ e.pc = "update"
    /\ events' = (events \ {e})
                 \cup {[e EXCEPT !.pc = "unlock", !.todo = <<>>, !.error = "logged"]}
    /\ UNCHANGED <<now, store, lock, sandboxDb, snapshotDb, volumeDb, nEmitted, calls>>

\* the amounts of the sandbox, reserved before it is created, and released
SettleAmounts == {<<SandboxRow(id).cpu, SandboxRow(id).mem, SandboxRow(id).disk>> :
                     id \in SandboxIds}
ReleaseAmounts == {<<Num(a[1]), Num(a[2]), Num(a[3])>> : a \in SettleAmounts}

NextSettleCached ==
    \/ Tick
    \/ \E id \in SandboxIds : SandboxCreate(id)
    \/ \E id \in SandboxIds, st \in SandboxStates : SandboxUpdateState(id, st)
    \/ \E e \in events : HandlerLock(e)
    \/ \E e \in events : HandlerUpdate(e)
    \/ \E e \in events : HandlerFail(e)
    \/ \E e \in events : HandlerUnlock(e)
    \/ \E c \in Reservers, a \in SettleAmounts : Increment(c, a)
    \/ \E c \in Reservers, a \in ReleaseAmounts : Decrement(c, a)

SpecSettleCached == InitCached /\ [][NextSettleCached]_vars

ConfirmedValue(s, organizationId, quotaType) ==
    RedisGet(s, getQuotaUsageCacheKey(organizationId, quotaType))

\* the amounts of event e were reserved by the last call of some caller
ReservedFor(e) ==
    \E c \in Callers :
        /\ calls[c].pc = "done" /\ calls[c].op = "incrementPendingSandboxUsage"
        /\ calls[c].flags = <<TRUE, TRUE, TRUE>>
        /\ calls[c].amounts = <<e.cpu, e.mem, e.disk>>

\* an update of handler e moves its amount from the pending counter of its
\* kind to the confirmed counter
Settles(e) ==
    LET u == NextUpdate(e)
        o == e.organizationId
    IN  /\ ConfirmedValue(store', o, u.quotaType)
               = Num(ConfirmedValue(store, o, u.quotaType).n + u.delta)
        /\ ToNumber(PendingValue(store', o, u.quotaType))
               = ToNumber(PendingValue(store, o, u.quotaType)) - u.delta

\* C14 as stated: with the confirmed counters present, a reservation made by
\* incrementPendingSandboxUsage and followed by a SandboxCreated event of the
\* same amounts has each confirmed counter rise and each pending counter fall
\* by its amount, whatever the pending counters held before the reservation.
C14_ReservationSettles ==
    [][\A e \in events :
          (/\ HandlerUpdate(e)
           /\ e.type = "SandboxCreated"
           /\ IsNum(ConfirmedValue(store, e.organizationId, NextUpdate(e).quotaType))
           /\ ReservedFor(e))
          => Settles(e)]_vars

\* the store after a reservation of amounts a and, with nothing in between,
\* the update of a SandboxCreated event for kind i
ReserveThenSettle(s, organizationId, a, i) ==
    updateQuotaUsage(incrementPendingScript(s, organizationId, <<TRUE, TRUE, TRUE>>, a),
                     organizationId, SandboxQuotas[i], a[i])

\* C14: with the confirmed counter present and the event's amount still held
\* in the pending counter (the counter was not below zero before the
\* reservation, which has neither expired nor been released), the update of a
\* SandboxCreated event raises the confirmed counter and lowers the pending
\* counter by the amount: confirmed + pending is unchanged, and a reservation
\* followed by the event leaves the pending counter at its value before the
\* reservation.
C14_LiveReservationSettles ==
    /\ [](\A o \in Organizations, a \in SettleAmounts, i \in 1..3 :
            LET q == SandboxQuotas[i]
                after == ReserveThenSettle(store, o, a, i)
            IN  (IsNum(ConfirmedValue(store, o, q)) /\ ToNumber(PendingValue(store, o, q)) >= 0)
                => /\ ConfirmedValue(after, o, q) = Num(ConfirmedValue(store, o, q).n + a[i])
                   /\ ToNumber(PendingValue(after, o, q)) = ToNumber(PendingValue(store, o, q)))
    /\ [][\A e \in events :
            (/\ HandlerUpdate(e)
             /\ e.type = "SandboxCreated"
             /\ IsNum(ConfirmedValue(store, e.organizationId, NextUpdate(e).quotaType))
             /\ ToNumber(PendingValue(store, e.organizationId, NextUpdate(e).quotaType))
                    >= NextUpdate(e).delta)
            => Settles(e)]_vars

\* the sandbox was reserved and then created, and its event is handled: the
\* confirmed counters hold its amounts and the pending counters are back at 0
C14_Witness ==
    /\ events = {} /\ nEmitted = 1
    /\ \E c \in Callers :
           /\ calls[c].pc = "done" /\ calls[c].op = "incrementPendingSandboxUsage"
           /\ calls[c].n = 1
    /\ \A o \in Organizations, a \in SettleAmounts, i \in 1..3 :
           /\ ConfirmedValue(store, o, SandboxQuotas[i]) = Num(a[i])
           /\ PendingValue(store, o, SandboxQuotas[i]) = Num(0)

----------------------------------------------------------------------------
(* Rehydration, checked under Spec *)

\* the field of an overview that reports quotaType
UsageField(o, quotaType) ==
    CASE quotaType = "cpu" -> o.currentCpuUsage
      [] quotaType = "memory" -> o.currentMemoryUsage
      [] quotaType = "disk" -> o.currentDiskUsage
      [] quotaType = "snapshot_count" -> o.currentSnapshotUsage
      [] OTHER -> o.currentVolumeUsage

\* the aggregate the claim gives for quotaType: the amounts summed over the
\* sandboxes whose state is in the consume-set, the snapshots and volumes
\* counted that are not in an ignored state
ClaimedAggregate(quotaType) ==
    LET inCompute == {id \in SandboxIds : sandboxDb[id] \in SANDBOX_STATES_CONSUMING_COMPUTE}
        inDisk == {id \in SandboxIds : sandboxDb[id] \in SANDBOX_STATES_CONSUMING_DISK}
    IN  CASE quotaType = "cpu" -> Sum(inCompute, [id \in SandboxIds |-> SandboxRow(id).cpu])
          [] quotaType = "memory" -> Sum(inCompute, [id \in SandboxIds |-> SandboxRow(id).mem])
          [] quotaType = "disk" -> Sum(inDisk, [id \in SandboxIds |-> SandboxRow(id).disk])
          [] quotaType = "snapshot_count" ->
                 Cardinality({id \in SnapshotIds :
                                 snapshotDb[id] \notin {"none"} \cup SNAPSHOT_USAGE_IGNORED_STATES})
          [] OTHER ->
                 Cardinality({id \in VolumeIds :
                                 volumeDb[id] \notin {"none"} \cup VOLUME_USAGE_IGNORED_STATES})

FamilyQuotas(op) == {OpQuotas(op)[i] : i \in 1..Len(OpQuotas(op))}

\* the confirmed keys of the family of frame f hold, in store s, the values
\* the frame fetched, each with a TTL
KeysHoldFetched(s, f) ==
    \A q \in FamilyQuotas(f.op) :
        LET entry == s[getQuotaUsageCacheKey(f.organizationId, q)]
        IN  entry.val = UsageField(f.usage, q) /\ entry.exp > 0

\* caller c takes the step from position from to position to
Steps(c, from, to) == calls[c].pc = from /\ calls'[c].pc = to

\* the database read of a call that missed the cache yields the aggregate
FetchAgrees ==
    [][\A c \in Callers :
          Steps(c, "fetch", "setex") =>
              \A q \in FamilyQuotas(calls[c].op) :
                  UsageField(calls'[c].usage, q) = Num(ClaimedAggregate(q))]_vars

\* C15 as stated: a getX call that misses the cache returns the database
\* aggregate, and at the moment it returns all confirmed keys of the family
\* hold those values with a TTL and the family's fetched_at is set.
C15_RehydrateAgreement ==
    /\ FetchAgrees
    /\ [][\A c \in Callers :
            (calls[c].pc # "done" /\ calls'[c].pc = "done" /\ calls'[c].path = "fetch") =>
                /\ KeysHoldFetched(store', calls'[c])
                /\ IsNum(RedisGet(store', getCacheStalenessKey(calls'[c].organizationId,
                                                               OpResourceType(calls'[c].op))))]_vars

\* C15: a getX call that misses the cache returns the aggregate it read from
\* the database (the exclusion apart); its cache write leaves all confirmed
\* keys of the family holding those values with the TTL, its staleness reset
\* stamps the family with the time, and the stamp is set when it returns.
C15_RehydrateAgreementAtWrite ==
    /\ FetchAgrees
    /\ [][\A c \in Callers :
            /\ Steps(c, "setex", "resetCacheStaleness") =>
                   /\ KeysHoldFetched(store', calls'[c])
                   /\ \A q \in FamilyQuotas(calls[c].op) :
                          store'[getQuotaUsageCacheKey(calls[c].organizationId, q)].exp
                              = now + CACHE_TTL_SECONDS
            /\ calls[c].pc = "resetCacheStaleness" /\ calls'[c].pc # "resetCacheStaleness" =>
                   RedisGet(store', getCacheStalenessKey(calls[c].organizationId,
                                                         OpResourceType(calls[c].op))) = Num(now)]_vars
    /\ [](\A c \in Callers :
            (Returned(c) /\ calls[c].path = "fetch") =>
                /\ IsNum(FetchedAt(calls[c].organizationId, OpResourceType(calls[c].op)))
                /\ calls[c].excludeSandboxId = "none" =>
                       \A q \in FamilyQuotas(calls[c].op) :
                           UsageField(calls[c].ret, q) = UsageField(calls[c].usage, q))

\* a call missed the cache, read the aggregate of a started sandbox and
\* returned it; the keys hold it and the family is stamped
C15_Witness ==
    \E c \in Callers :
        /\ Returned(c) /\ calls[c].path = "fetch" /\ calls[c].excludeSandboxId = "none"
        /\ calls[c].ret.currentCpuUsage = Num(1)
        /\ calls[c].ret.currentDiskUsage = Num(3)
        /\ KeysHoldFetched(store, calls[c])
        /\ IsNum(FetchedAt(calls[c].organizationId, "sandbox"))

----------------------------------------------------------------------------
(* Failure part-way through a handler, checked under SpecSettleCached *)

\* no handler is between two of its updates
NoHandlerUpdating == \A e \in events : e.pc # "update"

\* C16: the updates of a sandbox handler are all-or-nothing. Cpu and memory
\* change on the same events and disk on at least those, so while the keys are
\* present and no handler is between two updates, the memory counter holds the
\* sandboxes' memory whenever the cpu counter holds their cpu, and the disk
\* counter holds at least their disk: a failure never leaves cpu carrying a
\* delta that memory or disk does not carry.
C16_AllOrNothing ==
    \A o \in Organizations, id \in SandboxIds :
        LET cpu == ConfirmedValue(store, o, "cpu")
            memory == ConfirmedValue(store, o, "memory")
            disk == ConfirmedValue(store, o, "disk")
        IN  NoHandlerUpdating =>
                /\ (IsNum(cpu) /\ IsNum(memory)) =>
                       cpu.n * SandboxRow(id).mem = memory.n * SandboxRow(id).cpu
                /\ (IsNum(cpu) /\ IsNum(disk)) =>
                       cpu.n * SandboxRow(id).disk <= disk.n * SandboxRow(id).cpu

----------------------------------------------------------------------------
(* SpecOverview: getUsageOverview. The tables hold a started sandbox, an   *)
(* active snapshot and a ready volume; the cache is empty. Two callers ask *)
(* for the overview of an organization, with or without an organization    *)
(* object in hand, all within one second: no key expires.                  *)

\* the organization table holds the organizations of the model; one more id
\* has no row
OrganizationTable == Organizations
UnknownOrganizationId == "O2"
OrganizationIds == OrganizationTable \cup {UnknownOrganizationId}
\* an organization object a caller supplies is a row it has loaded
SuppliedOrganizations == {"none"} \cup OrganizationTable

InitOverview ==
    /\ now = 0
    /\ store = [k \in Keys |-> Absent]
    /\ lock = [k \in LockKeys |-> Free]
    /\ sandboxDb = [id \in SandboxIds |-> "started"]
    /\ snapshotDb = [id \in SnapshotIds |-> "active"]
    /\ volumeDb = [id \in VolumeIds |-> "ready"]
    /\ events = {}
    /\ nEmitted = 0
    /\ calls = [c \in Callers |-> IdleCall]

\* a check that lets every organization object pass
OrganizationNeverMismatches(organization, organizationId) == FALSE

\* organization && organization.id !== organizationId
OrganizationMismatch(organization, organizationId) ==
    organization # "none" /\ organization # organizationId

\* the call throws
Throw(f, exception) == [f EXCEPT !.pc = "done", !.error = exception]

\* the call awaits one of the three getters, with no sandbox to exclude
AwaitGetter(f, op) ==
    [f EXCEPT !.op = op, !.pc = FirstPc(op), !.i = 1, !.locked = FALSE,
              !.usage = NoOverview, !.ret = NoOverview, !.path = "none"]

\* { ...a, ...b }: the fields b has replace those of a
Spread(a, b) == [k \in DOMAIN a |-> IF b[k] # Undefined THEN b[k] ELSE a[k]]

\* getUsageOverview, up to its first await: the organization object is checked
getUsageOverviewStart(c, organizationId, organization) ==
    LET f == [IdleCall EXCEPT !.op = "getUsageOverview", !.outer = "getUsageOverview",
                              !.organizationId = organizationId,
                              !.organization = organization,
                              !.n = calls[c].n + 1, !.t0 = now]
    IN  /\ calls[c].pc \in {"idle", "done"}
        /\ calls[c].op \in {"none", "getUsageOverview"}
        /\ calls[c].n < MaxCalls
        /\ calls' = [calls EXCEPT ![c] =
               IF OrganizationMismatch(organization, organizationId)
               THEN Throw(f, "BadRequest")
               ELSE IF organization = "none" THEN [f EXCEPT !.pc = "findOne"]
               ELSE AwaitGetter(f, "getSandboxUsageOverview")]
        /\ UNCHANGED <<now, store, lock, sandboxDb, snapshotDb, volumeDb, events, nEmitted>>

\* organizationRepository.findOne
FindOrganization(c) ==
    LET f == calls[c]
    IN  /\ f.pc = "findOne" /\ f.op = "getUsageOverview"
        /\ calls' = [calls EXCEPT ![c] =
               IF f.organizationId \in OrganizationTable
               THEN AwaitGetter([f EXCEPT !.organization = f.organizationId],
                                "getSandboxUsageOverview")
               ELSE Throw(f, "NotFound")]
        /\ UNCHANGED <<now, store, lock, sandboxDb, snapshotDb, volumeDb, events, nEmitted>>

\* a getter has returned: the next one is awaited, or the overviews are
\* returned together
NextGetter(c) ==
    LET f == calls[c]
        g == [f EXCEPT !.total = Spread(f.total, f.ret)]
    IN  /\ f.pc = "done" /\ f.outer = "getUsageOverview" /\ f.op # "getUsageOverview"
        /\ calls' = [calls EXCEPT ![c] =
               CASE f.op = "getSandboxUsageOverview" -> AwaitGetter(g, "getSnapshotUsageOverview")
                 [] f.op = "getSnapshotUsageOverview" -> AwaitGetter(g, "getVolumeUsageOverview")
                 [] OTHER -> [g EXCEPT !.op = "getUsageOverview", !.ret = g.total]]
        /\ UNCHANGED <<now, store, lock, sandboxDb, snapshotDb, volumeDb, events, nEmitted>>

NextOverview ==
    \/ \E c \in Callers, o \in OrganizationIds, organization \in SuppliedOrganizations :
           getUsageOverviewStart(c, o, organization)
    \/ \E c \in Callers : FindOrganization(c)
    \/ \E c \in Callers : NextGetter(c)
    \/ \E c \in Callers : CachedGet(c)
    \/ \E c \in Callers : CachedStale(c)
    \/ \E c \in Callers : CachedRead(c)
    \/ \E c \in Callers : CallLock(c)
    \/ \E c \in Callers : Fetch(c)
    \/ \E c \in Callers : Setex(c)
    \/ \E c \in Callers : ResetStaleness(c)
    \/ \E c \in Callers : CallUnlock(c)

SpecOverview == InitOverview /\ [][NextOverview]_vars

\* the frame is a call of getUsageOverview given an organization object of
\* another id
IsMismatchedCall(f) ==
    /\ f.outer = "getUsageOverview"
    /\ f.organization # "none" /\ f.organization # f.organizationId

\* the frame is a call of getUsageOverview given no organization object, for
\* an id that has no row
IsUnknownCall(f) ==
    /\ f.outer = "getUsageOverview"
    /\ f.organization = "none" /\ f.organizationId \notin OrganizationTable

\* C17: getUsageOverview throws BadRequest, before any lookup, when it is given
\* an organization object whose id differs from organizationId, and NotFound
\* when it is given none and organizationId has no row; such a call is never
\* at a step that takes a lock or reads or writes a key, and its steps leave
\* the locks and the store as they were.
C17_OverviewErrors ==
    /\ [](\A c \in Callers :
            /\ IsMismatchedCall(calls[c]) =>
                   calls[c].pc = "done" /\ calls[c].error = "BadRequest"
            /\ IsUnknownCall(calls[c]) =>
                   \/ calls[c].pc = "findOne" /\ calls[c].error = "none"
                   \/ calls[c].pc = "done" /\ calls[c].error = "NotFound"
            /\ calls[c].error # "none" =>
                   IsMismatchedCall(calls[c]) \/ IsUnknownCall(calls[c]))
    /\ [][\A c \in Callers :
            (/\ calls'[c] # calls[c]
             /\ IsMismatchedCall(calls'[c]) \/ IsUnknownCall(calls'[c]))
            => UNCHANGED <<store, lock>>]_vars

\* one caller has thrown BadRequest and the other NotFound, after a call that
\* went through: the sandbox counters are cached
C17_Witness ==
    \E c, d \in Callers :
        /\ calls[c].pc = "done" /\ calls[c].error = "BadRequest" /\ IsMismatchedCall(calls[c])
        /\ calls[d].pc = "done" /\ calls[d].error = "NotFound" /\ IsUnknownCall(calls[d])
        /\ \E o \in Organizations : IsNum(ConfirmedValue(store, o, "cpu"))

----------------------------------------------------------------------------
(* SpecSameState: events that report a state the entity already had. The   *)
(* three families have just been read cold; the services create entities,  *)
(* change their states and also emit StateUpdated events whose old and new *)
(* state are the same; a caller reserves sandbox usage.                    *)

\* the store cold reads of the three families leave
ColdReadAll(s, organizationId) ==
    LET sandbox == ColdRead(s, organizationId)
        snapshot == resetCacheStaleness(
                        CacheResults(sandbox, organizationId, "getSnapshotUsageOverview",
                                     SnapshotUsageOverview(Num(SnapshotCount(organizationId)))),
                        organizationId, "snapshot")
    IN  resetCacheStaleness(
            CacheResults(snapshot, organizationId, "getVolumeUsageOverview",
                         VolumeUsageOverview(Num(VolumeCount(organizationId)))),
            organizationId, "volume")

InitAllCached ==
    /\ now = 0
    /\ lock = [k \in LockKeys |-> Free]
    /\ sandboxDb = [id \in SandboxIds |-> "none"]
    /\ snapshotDb = [id \in SnapshotIds |-> "none"]
    /\ volumeDb = [id \in VolumeIds |-> "none"]
    /\ events = {}
    /\ nEmitted = 0
    /\ calls = [c \in Callers |-> IdleCall]
    /\ store = ColdReadAll([k \in Keys |-> Absent], "O1")

\* the services emit a StateUpdated event for a state the entity already has
SandboxSameState(id) ==
    /\ sandboxDb[id] \in SandboxStates
    /\ Emit(NewEvent("SandboxStateUpdated", id, SandboxRow(id).organizationId, SandboxRow(id),
                     sandboxDb[id], sandboxDb[id]))
    /\ UNCHANGED <<now, store, lock, sandboxDb, snapshotDb, volumeDb, calls>>

SnapshotSameState(id) ==
    /\ snapshotDb[id] \in SnapshotStates
    /\ Emit(NewEvent("SnapshotStateUpdated", id, "O1", NoRow, snapshotDb[id], snapshotDb[id]))
    /\ UNCHANGED <<now, store, lock, sandboxDb, snapshotDb, volumeDb, calls>>

VolumeSameState(id) ==
    /\ volumeDb[id] \in VolumeStates
    /\ Emit(NewEvent("VolumeStateUpdated", id, "O1", NoRow, volumeDb[id], volumeDb[id]))
    /\ UNCHANGED <<now, store, lock, sandboxDb, snapshotDb, volumeDb, calls>>

NextSameState ==
    \/ Tick
    \/ \E id \in SandboxIds : SandboxCreate(id)
    \/ \E id \in SandboxIds, st \in SandboxStates : SandboxUpdateState(id, st)
    \/ \E id \in SandboxIds : SandboxSameState(id)
    \/ \E id \in SnapshotIds : SnapshotCreate(id)
    \/ \E id \in SnapshotIds, st \in SnapshotStates : SnapshotUpdateState(id, st)
    \/ \E id \in SnapshotIds : SnapshotSameState(id)
    \/ \E id \in VolumeIds : VolumeCreate(id)
    \/ \E id \in VolumeIds, st \in VolumeStates : VolumeUpdateState(id, st)
    \/ \E id \in VolumeIds : VolumeSameState(id)
    \/ \E e \in events : HandlerLock(e)
    \/ \E e \in events : HandlerUpdate(e)
    \/ \E e \in events : HandlerUnlock(e)
    \/ \E c \in Reservers, a \in SettleAmounts : Increment(c, a)

SpecSameState == InitAllCached /\ [][NextSameState]_vars

StateUpdatedEvents == {"SandboxStateUpdated", "SnapshotStateUpdated", "VolumeStateUpdated"}

\* the counters the handler of an event updates
EventQuotas(e) ==
    CASE e.type \in {"SandboxCreated", "SandboxStateUpdated"} -> {"cpu", "memory", "disk"}
      [] e.type \in {"SnapshotCreated", "SnapshotStateUpdated"} -> {"snapshot_count"}
      [] OTHER -> {"volume_count"}

IsSameStateEvent(e) == e.type \in StateUpdatedEvents /\ e.oldState = e.newState

\* C18: a SandboxStateUpdated, SnapshotStateUpdated or VolumeStateUpdated event
\* whose old and new state are the same has no updateQuotaUsage to make, and
\* every step of its handler leaves each confirmed counter, pending counter
\* and staleness stamp with the value and the expiry it had.
C18_SameStateNoWrite ==
    /\ [](\A e \in events : IsSameStateEvent(e) => e.pc # "update" /\ e.todo = <<>>)
    /\ [][\A e \in events : (IsSameStateEvent(e) /\ Handler(e)) => store' = store]_vars

\* the handler of a same-state event holds its lock and is past its updates,
\* some time after the counters of its family were cached: they are present,
\* and so is a pending counter
C18_Witness ==
    \E e \in events :
        /\ IsSameStateEvent(e) /\ e.pc = "unlock"
        /\ now > 0
        /\ \A q \in EventQuotas(e) : IsNum(ConfirmedValue(store, e.organizationId, q))
        /\ IsNum(PendingValue(store, e.organizationId, "cpu"))

----------------------------------------------------------------------------
(* SpecDelta: calculateQuotaUsageDelta on its own. A caller holds an amount, *)
(* two states and a set of states, and applies the function to them.        *)

MaxAmount == 2
DeltaAmounts == (0 - 1)..MaxAmount
DeltaStates == {"none"} \cup SandboxStates

DeltaCall(resourceAmount, oldState, newState, statesConsumingResource) ==
    [pc |-> "calculateQuotaUsageDelta", resourceAmount |-> resourceAmount,
     oldState |-> oldState, newState |-> newState,
     statesConsumingResource |-> statesConsumingResource, delta |-> Nil]

InitDelta ==
    /\ now = 0
    /\ store = [k \in Keys |-> Absent]
    /\ lock = [k \in LockKeys |-> Free]
    /\ sandboxDb = [id \in SandboxIds |-> "none"]
    /\ snapshotDb = [id \in SnapshotIds |-> "none"]
    /\ volumeDb = [id \in VolumeIds |-> "none"]
    /\ events = {}
    /\ nEmitted = 0
    /\ \E a \in DeltaAmounts, old \in DeltaStates, new \in DeltaStates, S \in SUBSET DeltaStates :
           calls = [c \in Callers |-> IF c \in Readers THEN DeltaCall(a, old, new, S)
                                      ELSE IdleCall]

CalculateDelta(c) ==
    LET f == calls[c]
    IN  /\ f.pc = "calculateQuotaUsageDelta"
        /\ calls' = [calls EXCEPT ![c] =
               [f EXCEPT !.pc = "done",
                         !.delta = Num(calculateQuotaUsageDelta(f.resourceAmount, f.oldState,
                                                                f.newState,
                                                                f.statesConsumingResource))]]
        /\ UNCHANGED <<now, store, lock, sandboxDb, snapshotDb, volumeDb, events, nEmitted>>

NextDelta == \E c \in Readers : CalculateDelta(c)

SpecDelta == InitDelta /\ [][NextDelta]_vars

\* C19: calculateQuotaUsageDelta(amount, old, new, S) is +amount if old is not
\* in S and new is, -amount if old is in S and new is not, and 0 otherwise; it
\* is 0 whenever old = new.
C19_DeltaCases ==
    \A c \in Readers :
        LET f == calls[c]
            leaves == f.oldState \in f.statesConsumingResource
                      /\ f.newState \notin f.statesConsumingResource
            enters == f.oldState \notin f.statesConsumingResource
                      /\ f.newState \in f.statesConsumingResource
        IN  f.pc = "done" =>
                /\ enters => f.delta = Num(f.resourceAmount)
                /\ leaves => f.delta = Num(0 - f.resourceAmount)
                /\ (~enters /\ ~leaves) => f.delta = Num(0)
                /\ f.oldState = f.newState => f.delta = Num(0)

\* the function was applied to an entity that left S with the largest amount
C19_Witness ==
    \E c \in Readers :
        /\ calls[c].pc = "done"
        /\ calls[c].oldState \in calls[c].statesConsumingResource
        /\ calls[c].newState \notin calls[c].statesConsumingResource
        /\ calls[c].resourceAmount = MaxAmount
        /\ calls[c].delta = Num(0 - MaxAmount)

----------------------------------------------------------------------------
(* The pending counters as readers see them, checked under SpecPending *)

\* a pending value a reader may report: null, or a number that is not negative
IsNullOrNonNegative(v) == v = Nil \/ IsNonNegativeNumber(v)

\* C20: a result of getSandboxUsageOverviewWithPending, on the cache-hit path
\* and on the rehydrate path, and a result of getQuotaPendingUsage never hold a
\* negative pending value: a counter that went below zero is reported as null.
C20_PendingNonNegativeRead ==
    /\ \A c \in Callers :
           (Returned(c) /\ calls[c].op = "getSandboxUsageOverviewWithPending")
           => \A i \in 1..3 : IsNullOrNonNegative(PendingOf(calls[c].ret)[i])
    /\ \A o \in Organizations, i \in 1..3 :
           IsNullOrNonNegative(getQuotaPendingUsage(store, o, SandboxQuotas[i]))

\* a call returned on the cache-hit path while the pending cpu counter was
\* below zero and the pending memory counter was not: it reports null for cpu
\* and the number for memory, and so does getQuotaPendingUsage
C20_Witness ==
    \E c \in Callers :
        /\ Returned(c) /\ calls[c].op = "getSandboxUsageOverviewWithPending"
        /\ OnCacheHit(c)
        /\ PendingValue(store, calls[c].organizationId, "cpu").n < 0
        /\ \A v \in calls[c].seen : v.pendingCpuUsage.n < 0 /\ IsNum(v.pendingMemoryUsage)
        /\ calls[c].ret.pendingCpuUsage = Nil
        /\ IsNonNegativeNumber(calls[c].ret.pendingMemoryUsage)
        /\ getQuotaPendingUsage(store, calls[c].organizationId, "cpu") = Nil

----------------------------------------------------------------------------
(* SpecExclude: the dual view with a sandbox to exclude. The sandbox table  *)
(* holds the sandbox in any of its states, or not at all; one caller reads  *)
(* with getSandboxUsageOverviewWithPending and names it for exclusion while *)
(* another reserves and releases pending usage.                            *)

InitExclude ==
    /\ now = 0
    /\ store = [k \in Keys |-> Absent]
    /\ lock = [k \in LockKeys |-> Free]
    /\ sandboxDb \in [SandboxIds -> {"none"} \cup SandboxStates]
    /\ snapshotDb = [id \in SnapshotIds |-> "none"]
    /\ volumeDb = [id \in VolumeIds |-> "none"]
    /\ events = {}
    /\ nEmitted = 0
    /\ calls = [c \in Callers |-> IdleCall]

NextExclude ==
    \/ Tick
    \/ \E c \in Readers, ex \in SandboxIds :
           Start(c, "getSandboxUsageOverviewWithPending", ex)
    \/ \E c \in Readers : CachedReadWithPending(c)
    \/ \E c \in Readers : CachedStaleWithPending(c)
    \/ \E c \in Readers : CallLock(c)
    \/ \E c \in Readers : Fetch(c)
    \/ \E c \in Readers : Setex(c)
    \/ \E c \in Readers : ResetStaleness(c)
    \/ \E c \in Readers : PendingGet(c)
    \/ \E c \in Readers : Exclude(c)
    \/ \E c \in Readers : CallUnlock(c)
    \/ \E c \in Reservers, a \in IncrementAmounts : Increment(c, a)
    \/ \E c \in Reservers, a \in DecrementAmounts : Decrement(c, a)

SpecExclude == InitExclude /\ [][NextExclude]_vars

\* the confirmed values of an overview
ConfirmedOf(o) == <<o.currentCpuUsage, o.currentMemoryUsage, o.currentDiskUsage>>

\* what the claim has the exclusion take off each confirmed value, for a
\* sandbox found in state st
ClaimedExclusion(id, st) ==
    <<IF st \in SANDBOX_STATES_CONSUMING_COMPUTE THEN SandboxRow(id).cpu ELSE 0,
      IF st \in SANDBOX_STATES_CONSUMING_COMPUTE THEN SandboxRow(id).mem ELSE 0,
      IF st \in SANDBOX_STATES_CONSUMING_DISK THEN SandboxRow(id).disk ELSE 0>>

\* C21: in getSandboxUsageOverviewWithPending with excludeSandboxId, the
\* exclusion changes only the three confirmed values, each to
\* max(0, value - the sandbox's share); the three pending values returned are
\* those the call read from the store, whatever the state of the sandbox.
C21_ExclusionKeepsPending ==
    \A c \in Callers :
        (/\ Returned(c)
         /\ calls[c].op = "getSandboxUsageOverviewWithPending"
         /\ calls[c].excludeSandboxId # "none")
        => /\ PendingOf(calls[c].ret) = PendingOf(calls[c].usage)
           /\ \E v \in calls[c].seen : PendingOf(calls[c].ret)[1] = PendingView(v)[1]
           /\ \A i \in 1..3 :
                  ConfirmedOf(calls[c].ret)[i]
                      = Num(Max(0, ToNumber(ConfirmedOf(calls[c].usage)[i])
                                   - ClaimedExclusion(calls[c].excludeSandboxId,
                                                      calls[c].excluded)[i]))

\* a call excluded a started sandbox while usage was reserved: the confirmed
\* cpu it read is reduced to 0 and the pending values are returned as read
C21_Witness ==
    \E c \in Callers :
        /\ Returned(c) /\ calls[c].op = "getSandboxUsageOverviewWithPending"
        /\ calls[c].excludeSandboxId # "none" /\ calls[c].excluded = "started"
        /\ calls[c].usage.currentCpuUsage = Num(1) /\ calls[c].ret.currentCpuUsage = Num(0)
        /\ calls[c].usage.pendingCpuUsage = Num(1) /\ calls[c].ret.pendingCpuUsage = Num(1)
        /\ calls[c].ret.pendingDiskUsage = Num(1)

----------------------------------------------------------------------------
(* SpecMutate: several processes mutate the same counters. The sandbox     *)
(* family has just been read cold; two callers reserve and release the     *)
(* sandbox's amounts while its events are handled. No time passes: nothing *)
(* expires and nothing is rehydrated.                                      *)

NextMutate ==
    \/ \E id \in SandboxIds : SandboxCreate(id)
    \/ \E id \in SandboxIds, st \in SandboxStates : SandboxUpdateState(id, st)
    \/ \E e \in events : HandlerLock(e)
    \/ \E e \in events : HandlerUpdate(e)
    \/ \E e \in events : HandlerUnlock(e)
    \/ \E c \in Callers, a \in SettleAmounts : Increment(c, a)
    \/ \E c \in Callers, a \in ReleaseAmounts : Decrement(c, a)

SpecMutate == InitCached /\ [][NextMutate]_vars

CounterKeys(organizationId) ==
    {getQuotaUsageCacheKey(organizationId, q) : q \in QuotaTypes}
    \cup {getPendingQuotaUsageCacheKey(organizationId, q) : q \in QuotaTypes}

\* the step adds d to what key k holds now
Adds(k, d) == store'[k].val = Num(ToNumber(store[k].val) + d)

\* the step leaves every counter but those of set K as it was
OnlyChanges(K) ==
    \A o \in Organizations : \A k \in CounterKeys(o) \ K : store'[k] = store[k]

\* what the settlement in updateQuotaUsage takes off a pending counter that
\* holds v, for a delta d
SettledAmount(v, d) == IF IsNum(v) /\ v.n > 0 /\ d > 0 THEN d ELSE 0

\* C22: mutations of the same counter by several processes are never lost.
\* Each incrementPendingSandboxUsage, decrementPendingSandboxUsage and
\* updateQuotaUsage adds its delta to what the counter holds at that moment,
\* whatever the other processes did before, and touches no other counter; so
\* with no expiry or rehydrate a present counter holds its initial value plus
\* the sum of the deltas applied, and once every event is handled the
\* confirmed counters hold the database aggregate.
C22_NoLostUpdate ==
    /\ [][\A c \in Callers :
            /\ Completes(c, "incrementPendingSandboxUsage") =>
                   /\ \A i \in 1..3 :
                          Adds(getPendingQuotaUsageCacheKey(calls'[c].organizationId,
                                                            SandboxQuotas[i]),
                               calls'[c].amounts[i])
                   /\ OnlyChanges(PendingKeys(calls'[c].organizationId))
            /\ Completes(c, "decrementPendingSandboxUsage") =>
                   /\ \A i \in 1..3 :
                          Adds(getPendingQuotaUsageCacheKey(calls'[c].organizationId,
                                                            SandboxQuotas[i]),
                               0 - ToNumber(calls'[c].amounts[i]))
                   /\ OnlyChanges(PendingKeys(calls'[c].organizationId))]_vars
    /\ [][\A e \in events :
            HandlerUpdate(e) =>
                LET u == NextUpdate(e)
                    cacheKey == getQuotaUsageCacheKey(e.organizationId, u.quotaType)
                    pendingCacheKey == getPendingQuotaUsageCacheKey(e.organizationId, u.quotaType)
                    settled == SettledAmount(store[pendingCacheKey].val, u.delta)
                IN  /\ IF RedisExists(store, cacheKey) THEN Adds(cacheKey, u.delta)
                       ELSE store'[cacheKey] = store[cacheKey]
                    /\ IF settled # 0 THEN Adds(pendingCacheKey, 0 - settled)
                       ELSE store'[pendingCacheKey] = store[pendingCacheKey]
                    /\ OnlyChanges({cacheKey, pendingCacheKey})]_vars
    /\ [](events = {} =>
            \A o \in Organizations, i \in 1..3 :
                ConfirmedValue(store, o, SandboxQuotas[i])
                    = ConfirmedOf(SandboxUsageMetrics(o))[i])

\* both callers reserved the sandbox's amounts and its creation was handled
\* in between: each pending counter holds the two reservations less the
\* settlement, each confirmed counter the sandbox's amount
C22_Witness ==
    /\ events = {} /\ nEmitted = 1
    /\ \A c \in Callers :
           calls[c].pc = "done" /\ calls[c].op = "incrementPendingSandboxUsage" /\ calls[c].n = 1
    /\ \A o \in Organizations, a \in SettleAmounts, i \in 1..3 :
           /\ ConfirmedValue(store, o, SandboxQuotas[i]) = Num(a[i])
           /\ PendingValue(store, o, SandboxQuotas[i]) = Num(a[i])

----------------------------------------------------------------------------
(* SpecRehydrate: two callers read the sandbox family, one with            *)
(* getSandboxUsageOverview and one with getSandboxUsageOverviewWithPending, *)
(* over tables that hold a started sandbox. Time passes, keys expire, and  *)
(* so does a lock that is held past its ttl.                               *)

NextRehydrate ==
    \/ Tick
    \/ \E k \in LockKeys : LockExpires(k)
    \/ \E c \in Readers : Start(c, "getSandboxUsageOverview", "none")
    \/ \E c \in Reservers : Start(c, "getSandboxUsageOverviewWithPending", "none")
    \/ \E c \in Callers : CachedGet(c)
    \/ \E c \in Callers : CachedStale(c)
    \/ \E c \in Callers : CachedRead(c)
    \/ \E c \in Callers : CachedReadWithPending(c)
    \/ \E c \in Callers : CachedStaleWithPending(c)
    \/ \E c \in Callers : CallLock(c)
    \/ \E c \in Callers : Fetch(c)
    \/ \E c \in Callers : Setex(c)
    \/ \E c \in Callers : ResetStaleness(c)
    \/ \E c \in Callers : PendingGet(c)
    \/ \E c \in Callers : CallUnlock(c)

SpecRehydrate == InitOverview /\ [][NextRehydrate]_vars

\* the fetch lock of the call in frame f
CallLockKey(f) == FetchLockKey(f.organizationId, OpResourceType(f.op))

\* the call has found the cache missing under the lock and aggregates the
\* database, or writes what it aggregated
InRehydrate(c) ==
    calls[c].locked /\ calls[c].pc \in {"fetch", "setex", "resetCacheStaleness"}

\* the confirmed counters of the family of frame f are live and hold numbers
\* that are not negative, and the family was stamped no longer than
\* CACHE_MAX_AGE_MS ago
FamilyCached(f) ==
    /\ \A q \in FamilyQuotas(f.op) :
           IsNonNegativeNumber(ConfirmedValue(store, f.organizationId, q))
    /\ IsNum(FetchedAt(f.organizationId, OpResourceType(f.op)))
    /\ now - FetchedAt(f.organizationId, OpResourceType(f.op)).n <= CACHE_MAX_AGE_MS

\* a caller under the lock goes on to the database only if it found the
\* family missing or stale
RecheckBeforeFetch ==
    [][\A c \in Callers :
          (calls[c].locked /\ Steps(c, calls[c].pc, "fetch") /\ calls[c].pc # "fetch")
          => ~FamilyCached(calls[c])]_vars

\* C23 as stated: two database aggregations for the same organization and
\* family never run concurrently among the callers of the getX operations
\* (getSandboxUsageOverview and getSandboxUsageOverviewWithPending share one
\* lock), and a caller that obtains the lock after another has rehydrated
\* returns the cached value without querying the database.
C23_RehydrateSerialized ==
    /\ [](\A c, d \in Callers :
            (c # d /\ CallLockKey(calls[c]) = CallLockKey(calls[d]))
            => ~(InRehydrate(c) /\ InRehydrate(d)))
    /\ RecheckBeforeFetch

\* C23: a caller rehydrates only while it owns the fetch lock of the family or
\* after its lock has expired, LOCK_TTL_SECONDS after it took it: two
\* aggregations for the same organization and family run concurrently only if
\* the first holder has held its lock past the ttl. getSandboxUsageOverview
\* and getSandboxUsageOverviewWithPending use the same lock, and a caller that
\* finds the family cached under the lock returns it without querying the
\* database.
C23_RehydrateSerializedWithinTtl ==
    /\ [](\A c \in Callers :
            InRehydrate(c) =>
                \/ lock[CallLockKey(calls[c])].owner = c
                \/ now >= calls[c].tLocked + LOCK_TTL_SECONDS)
    /\ [](\A c, d \in Callers :
            (c # d /\ CallLockKey(calls[c]) = CallLockKey(calls[d])
             /\ InRehydrate(c) /\ InRehydrate(d))
            => \E h \in {c, d} :
                   /\ lock[CallLockKey(calls[h])].owner # h
                   /\ now >= calls[h].tLocked + LOCK_TTL_SECONDS)
    /\ RecheckBeforeFetch

\* one caller rehydrated the family; the other, which had missed the cache and
\* took the lock after it, found the family cached and returned it
C23_Witness ==
    \E c, d \in Callers :
        /\ c # d
        /\ Returned(c) /\ calls[c].path = "fetch"
        /\ Returned(d) /\ calls[d].path = "recheck"
        /\ calls[c].n = 1 /\ calls[d].n = 1
        /\ calls[d].ret.currentCpuUsage = calls[c].ret.currentCpuUsage

----------------------------------------------------------------------------
(* SpecHandlers: the handlers and their locks. The three families have     *)
(* just been read cold; a sandbox is created and changes state, a snapshot *)
(* is created; time passes, and a lock held past its ttl expires.          *)

NextHandlers ==
    \/ Tick
    \/ \E k \in LockKeys : LockExpires(k)
    \/ \E id \in SandboxIds : SandboxCreate(id)
    \/ \E id \in SandboxIds, st \in SandboxStates : SandboxUpdateState(id, st)
    \/ \E id \in SnapshotIds : SnapshotCreate(id)
    \/ \E e \in events : HandlerLock(e)
    \/ \E e \in events : HandlerUpdate(e)
    \/ \E e \in events : HandlerUnlock(e)

SpecHandlers == InitAllCached /\ [][NextHandlers]_vars

\* handler e has made at least one of its updates and has at least one to make
BetweenUpdates(e) == e.pc = "update" /\ Len(e.todo) < Len(HandlerUpdates(e))

\* handler e has taken its lock and not released it
InHandler(e) == e.pc \in {"update", "unlock"}

OwnsLock(e) == lock[EventLockKey(e)].owner = ToString(e.id)

\* handler e no longer owns its lock, which expired LOCK_TTL_SECONDS after
\* e took it
PastTtl(e) == ~OwnsLock(e) /\ now >= e.tLocked + LOCK_TTL_SECONDS

\* C24 as stated: for two events of the same entity, the store mutations of
\* one handler all happen before or all after those of the other: no handler
\* mutates the store while the handler of another event of the same entity is
\* between two of its mutations.
C24_HandlersSerialized ==
    [][\A e, f \in events :
          (e # f /\ EventLockKey(e) = EventLockKey(f) /\ HandlerUpdate(f))
          => ~BetweenUpdates(e)]_vars

\* C24: a handler mutates the store only while it owns the lock of its entity
\* or after that lock has expired, LOCK_TTL_SECONDS after it took it; for two
\* events of the same entity the mutations of one handler fall between those
\* of the other only if one of the two has held its lock past the ttl.
\* Handlers of different entities take different locks.
C24_HandlersSerializedWithinTtl ==
    /\ [](\A e \in events :
            InHandler(e) => OwnsLock(e) \/ PastTtl(e))
    /\ [][\A e, f \in events :
            (e # f /\ EventLockKey(e) = EventLockKey(f) /\ HandlerUpdate(f)
             /\ BetweenUpdates(e))
            => PastTtl(e) \/ PastTtl(f)]_vars
    /\ [](\A e, f \in events :
            e.entityId # f.entityId => EventLockKey(e) # EventLockKey(f))

\* the handler of a sandbox event is between two of its updates, within the
\* ttl of its lock, while the handler of a snapshot event of the same
\* organization, which took its lock no earlier, has made its update
C24_Witness ==
    \E e, f \in events :
        /\ e.type = "SandboxCreated" /\ f.type = "SnapshotCreated"
        /\ e.organizationId = f.organizationId
        /\ BetweenUpdates(e) /\ OwnsLock(e) /\ now < e.tLocked + LOCK_TTL_SECONDS
        /\ f.pc = "unlock" /\ OwnsLock(f) /\ f.tLocked >= e.tLocked
        /\ ConfirmedValue(store, e.organizationId, "cpu") = Num(e.cpu)
        /\ ConfirmedValue(store, f.organizationId, "snapshot_count") = Num(1)

----------------------------------------------------------------------------
(* SpecHandlerFail: the six handlers, any script of which may throw. The   *)
(* three families have just been read cold.                                *)

NextHandlerFail ==
    \/ \E id \in SandboxIds : SandboxCreate(id)
    \/ \E id \in SandboxIds, st \in SandboxStates : SandboxUpdateState(id, st)
    \/ \E id \in SnapshotIds : SnapshotCreate(id)
    \/ \E id \in SnapshotIds, st \in SnapshotStates : SnapshotUpdateState(id, st)
    \/ \E id \in VolumeIds : VolumeCreate(id)
    \/ \E id \in VolumeIds, st \in VolumeStates : VolumeUpdateState(id, st)
    \/ \E e \in events : HandlerLock(e)
    \/ \E e \in events : HandlerUpdate(e)
    \/ \E e \in events : HandlerFail(e)
    \/ \E e \in events : HandlerUnlock(e)

SpecHandlerFail == InitAllCached /\ [][NextHandlerFail]_vars

\* the handler of e has caught the error of a script
HasFailed(e) == e.error # "none"

\* C25: when a script fails inside a handler, whichever of the six it is,
\* the handler goes on to its finally block with the error logged and not
\* thrown, makes none of the updates that remained for the event, and its
\* next and last step releases the lock of its entity.
C25_FailureSwallowed ==
    /\ [](\A e \in events :
            HasFailed(e) => e.pc = "unlock" /\ e.todo = <<>> /\ OwnsLock(e))
    /\ [][\A e \in events :
            HasFailed(e) =>
                /\ ~HandlerUpdate(e)
                /\ \A f \in events' : f.id = e.id => f = e
                /\ (\A f \in events' : f.id # e.id) => lock'[EventLockKey(e)] = Free]_vars
    /\ [][\A e \in events : HandlerFail(e) => store' = store /\ lock' = lock]_vars

\* the handler of a SandboxCreated event has added the cpu of the sandbox, the
\* script of its memory update has failed and it still holds the lock
C25_Witness ==
    \E e \in events :
        /\ e.type = "SandboxCreated" /\ HasFailed(e) /\ OwnsLock(e)
        /\ ConfirmedValue(store, e.organizationId, "cpu") = Num(e.cpu)
        /\ ConfirmedValue(store, e.organizationId, "memory") = Num(0)

----------------------------------------------------------------------------
(* C26: the counters a SandboxStateUpdated event changes.                  *)

\* the states in which a sandbox consumes the quota
StatesConsuming(quotaType) ==
    IF quotaType = "disk" THEN SANDBOX_STATES_CONSUMING_DISK
    ELSE SANDBOX_STATES_CONSUMING_COMPUTE

\* the amount of the quota the sandbox of event e has
AmountOf(e, quotaType) ==
    CASE quotaType = "cpu" -> e.cpu
      [] quotaType = "memory" -> e.mem
      [] OTHER -> e.disk

\* the delta of the quota for the transition of event e
DeltaOf(e, quotaType) ==
    calculateQuotaUsageDelta(AmountOf(e, quotaType), e.oldState, e.newState,
                             StatesConsuming(quotaType))

ConfirmedKeys(organizationId) ==
    {getQuotaUsageCacheKey(organizationId, q) : q \in QuotaTypes}

\* C26: a SandboxStateUpdated event changes each present confirmed counter by
\* exactly calculateDelta with its own consume-set (COMPUTE for cpu and memory,
\* DISK for disk) and leaves a counter whose delta is 0 untouched: the handler
\* plans one update per sandbox quota of non-zero delta, in the order cpu,
\* memory, disk; each update adds that delta to the confirmed counter if it is
\* present, leaves it absent if not, and changes no other confirmed counter.
\* From started to stopped the updates are cpu less sandbox.cpu and memory
\* less sandbox.mem, and none for disk.
C26_StateUpdatedDeltas ==
    /\ [][\A e \in events :
            (e.type = "SandboxStateUpdated" /\ HandlerLock(e)) =>
                \E f \in events' :
                    /\ f.id = e.id
                    /\ \A i \in 1..3 :
                           DeltaOf(e, SandboxQuotas[i]) # 0
                           <=> \E j \in DOMAIN f.todo :
                                   f.todo[j] = <<SandboxQuotas[i], DeltaOf(e, SandboxQuotas[i])>>
                    /\ \A j \in DOMAIN f.todo :
                           /\ f.todo[j][2] = DeltaOf(e, f.todo[j][1])
                           /\ \A k \in DOMAIN f.todo :
                                  j < k => \E a, b \in 1..3 :
                                               /\ a < b
                                               /\ f.todo[j][1] = SandboxQuotas[a]
                                               /\ f.todo[k][1] = SandboxQuotas[b]
                    /\ (e.oldState = "started" /\ e.newState = "stopped")
                       => f.todo = <<<<"cpu", 0 - e.cpu>>, <<"memory", 0 - e.mem>>>>]_vars
    /\ [][\A e \in events :
            (e.type = "SandboxStateUpdated" /\ HandlerUpdate(e)) =>
                LET u == NextUpdate(e)
                    cacheKey == getQuotaUsageCacheKey(e.organizationId, u.quotaType)
                IN  /\ u.delta = DeltaOf(e, u.quotaType)
                    /\ IF RedisExists(store, cacheKey) THEN Adds(cacheKey, u.delta)
                       ELSE store'[cacheKey] = store[cacheKey]
                    /\ \A k \in ConfirmedKeys(e.organizationId) \ {cacheKey} :
                           store'[k].val = store[k].val]_vars

\* the handler of a transition from started to stopped has made its updates:
\* the confirmed counters, which held the amounts of the sandbox, hold 0 for
\* cpu and memory and the sandbox's disk
C26_Witness ==
    \E e \in events :
        /\ e.type = "SandboxStateUpdated" /\ e.pc = "unlock" /\ ~HasFailed(e)
        /\ e.oldState = "started" /\ e.newState = "stopped"
        /\ ConfirmedValue(store, e.organizationId, "cpu") = Num(0)
        /\ ConfirmedValue(store, e.organizationId, "memory") = Num(0)
        /\ ConfirmedValue(store, e.organizationId, "disk") = Num(e.disk)

----------------------------------------------------------------------------
(* SpecInvalid: reads of a family whose confirmed counters are invalid.    *)
(* The sandbox has been stopped; the cache was rehydrated after the stop   *)
(* was written to the database and before its event was handled, so the    *)
(* handler has taken cpu and memory below 0. The sandbox goes on changing  *)
(* state while the callers read.                                           *)

StoreInvalid ==
    LET rehydrated == resetCacheStaleness(
                          CacheResults([k \in Keys |-> Absent], "O1", "getSandboxUsageOverview",
                                       SandboxUsageOverview(Num(0), Num(0), Num(SandboxRow("S1").disk))),
                          "O1", "sandbox")
    IN  updateQuotaUsage(updateQuotaUsage(rehydrated, "O1", "cpu", 0 - SandboxRow("S1").cpu),
                         "O1", "memory", 0 - SandboxRow("S1").mem)

InitInvalid ==
    /\ now = 0
    /\ lock = [k \in LockKeys |-> Free]
    /\ sandboxDb = [id \in SandboxIds |-> "stopped"]
    /\ snapshotDb = [id \in SnapshotIds |-> "none"]
    /\ volumeDb = [id \in VolumeIds |-> "none"]
    /\ events = {}
    /\ nEmitted = 0
    /\ calls = [c \in Callers |-> IdleCall]
    /\ store = StoreInvalid

\* the confirmed counters of the operation's family that hold a value that is
\* not a non-negative number, with that value
InvalidCounters(s, organizationId, op) ==
    {<<OpQuotas(op)[i], RedisGet(s, getQuotaUsageCacheKey(organizationId, OpQuotas(op)[i]))>> :
        i \in {j \in DOMAIN OpQuotas(op) :
                 LET cachedData == RedisGet(s, getQuotaUsageCacheKey(organizationId,
                                                                     OpQuotas(op)[j]))
                 IN  cachedData # Nil /\ (~IsNum(cachedData) \/ cachedData.n < 0)}}

\* a call that begins while a counter of its family is invalid; invalid keeps
\* which counters, and their values
StartWhenInvalid(c, op) ==
    /\ calls[c].pc \in {"idle", "done"}
    /\ calls[c].n < MaxCalls
    /\ InvalidCounters(store, "O1", op) # {}
    /\ calls' = [calls EXCEPT ![c] =
           [StartFrame(c, op, "none") EXCEPT !.invalid = InvalidCounters(store, "O1", op)]]
    /\ UNCHANGED <<now, store, lock, sandboxDb, snapshotDb, volumeDb, events, nEmitted>>

NextInvalid ==
    \/ \E id \in SandboxIds, st \in SandboxStates : SandboxUpdateState(id, st)
    \/ \E e \in events : HandlerLock(e)
    \/ \E e \in events : HandlerUpdate(e)
    \/ \E e \in events : HandlerUnlock(e)
    \/ \E c \in Readers : StartWhenInvalid(c, "getSandboxUsageOverview")
    \/ \E c \in Reservers : StartWhenInvalid(c, "getSandboxUsageOverviewWithPending")
    \/ \E c \in Callers : CachedGet(c)
    \/ \E c \in Callers : CachedStale(c)
    \/ \E c \in Callers : CachedRead(c)
    \/ \E c \in Callers : CachedReadWithPending(c)
    \/ \E c \in Callers : CachedStaleWithPending(c)
    \/ \E c \in Callers : CallLock(c)
    \/ \E c \in Callers : Fetch(c)
    \/ \E c \in Callers : Setex(c)
    \/ \E c \in Callers : ResetStaleness(c)
    \/ \E c \in Callers : PendingGet(c)
    \/ \E c \in Callers : CallUnlock(c)

SpecInvalid == InitInvalid /\ [][NextInvalid]_vars

\* C27: when a confirmed counter holds a non-numeric or negative value, the
\* next getX call for its family does not return that value: a call that
\* began while a counter of its family was invalid returns for that counter
\* a value other than the invalid one, and returns a cached value only if it
\* is a non-negative number.
C27_InvalidCounterIsMiss ==
    \A c \in Callers :
        (Returned(c) /\ calls[c].invalid # {}) =>
            \A p \in calls[c].invalid :
                /\ UsageField(calls[c].ret, p[1]) # p[2]
                /\ IsNum(UsageField(calls[c].ret, p[1]))
                /\ UsageField(calls[c].ret, p[1]).n >= 0

----------------------------------------------------------------------------
(* C28: the two writes of a rehydrate.                                     *)

\* call c has written the counters of its family and not yet the stamp
BetweenWrites(c) == calls[c].pc = "resetCacheStaleness"

\* call d reads the counters or the stamp of the family call c rehydrates
ObservesFamilyOf(d, c) ==
    /\ d # c
    /\ OpResourceType(calls[d].op) = OpResourceType(calls[c].op)
    /\ calls[d].organizationId = calls[c].organizationId
    /\ \/ CachedGet(d) \/ CachedStale(d) \/ CachedRead(d)
       \/ CachedReadWithPending(d) \/ CachedStaleWithPending(d)

StalenessKeyOf(f) == getCacheStalenessKey(f.organizationId, OpResourceType(f.op))

\* C28 as stated: the counters and the stamp are written as one atomic step: no
\* concurrent reader reads the family while a rehydrate has written its
\* counters and not yet its stamp.
C28_RehydrateAtomic ==
    [][\A c, d \in Callers : BetweenWrites(c) => ~ObservesFamilyOf(d, c)]_vars

\* C28: a rehydrate writes the confirmed counters of the family, with their
\* TTL, in one atomic step that leaves the stamp as it was, and writes the
\* stamp in a later step that leaves the counters as they were; the value is
\* returned to the caller only after both writes.
C28_RehydrateTwoWrites ==
    /\ [][\A c \in Callers :
            Setex(c) =>
                /\ \A i \in DOMAIN OpQuotas(calls[c].op) :
                       store'[getQuotaUsageCacheKey(calls[c].organizationId,
                                                    OpQuotas(calls[c].op)[i])]
                         = [val |-> UsageField(calls[c].usage, OpQuotas(calls[c].op)[i]),
                            exp |-> now + CACHE_TTL_SECONDS]
                /\ store'[StalenessKeyOf(calls[c])] = store[StalenessKeyOf(calls[c])]
                /\ BetweenWrites(c)']_vars
    /\ [][\A c \in Callers :
            ResetStaleness(c) =>
                /\ store'[StalenessKeyOf(calls[c])].val = Num(now)
                /\ \A k \in ConfirmedKeys(calls[c].organizationId) : store'[k] = store[k]]_vars
    /\ [](\A c \in Callers :
            (calls[c].path = "fetch"
             /\ calls[c].pc \in {"getQuotaPendingUsage", "exclude", "unlock", "done"})
            => /\ IsNum(store[StalenessKeyOf(calls[c])].val)
               /\ store[StalenessKeyOf(calls[c])].val.n >= calls[c].t0)

\* one caller has written the counters and not yet the stamp, which is
\* absent; the other caller has read those counters in the meantime
C28_Witness ==
    \E c, d \in Callers :
        /\ c # d /\ BetweenWrites(c)
        /\ store[StalenessKeyOf(calls[c])].val = Nil
        /\ calls[d].pc = "isCacheStaleWithPending"
        /\ calls[d].usage.currentCpuUsage = calls[c].usage.currentCpuUsage
        /\ IsNum(calls[d].usage.currentCpuUsage)

----------------------------------------------------------------------------
(* C29: the expiry of the pending counters.                                *)

\* the pending counter at key k is counted: it reads as a positive number
IsCounted(s, k) == IsNum(s[k].val) /\ s[k].val.n > 0

\* C29: every pending counter holding a positive value has an expiry, no
\* later than CACHE_TTL_SECONDS from now; the expiry of a pending counter is
\* set only by incrementPendingSandboxUsage, to CACHE_TTL_SECONDS from the
\* increment, and no other operation moves it: a reservation that is neither
\* settled nor rolled back is gone once CACHE_TTL_SECONDS have passed since
\* the last increment of that kind, and the counter then reads as absent, or
\* as not positive if a decrement has created it anew.
C29_PendingExpires ==
    /\ [](\A o \in Organizations : \A k \in PendingKeys(o) :
            IsCounted(store, k) =>
                /\ store[k].exp > now
                /\ store[k].exp <= now + CACHE_TTL_SECONDS)
    /\ [][\A o \in Organizations : \A k \in PendingKeys(o) :
            /\ store'[k].exp # store[k].exp =>
                   \/ store'[k] = Absent /\ now' >= store[k].exp
                   \/ /\ \E c \in Callers : Completes(c, "incrementPendingSandboxUsage")
                      /\ store'[k].exp = now + CACHE_TTL_SECONDS
            /\ (IsCounted(store, k) /\ now' >= store[k].exp) => ~IsCounted(store', k)
            /\ (~IsCounted(store, k) /\ IsCounted(store', k)) =>
                   \E c \in Callers : Completes(c, "incrementPendingSandboxUsage")]_vars

\* a reservation of cpu made one tick ago, with every event handled, is still
\* counted and expires CACHE_TTL_SECONDS after it was made
C29_Witness ==
    LET k == getPendingQuotaUsageCacheKey("O1", "cpu")
    IN  /\ IsCounted(store, k)
        /\ store[k].exp = now + CACHE_TTL_SECONDS - 1
        /\ \E c \in Callers : calls[c].op = "incrementPendingSandboxUsage"
        /\ events = {}

----------------------------------------------------------------------------
(* SpecLockTimeout: the getters of the sandbox family, when the wait for   *)
(* the fetch lock may time out.                                            *)

\* the error waitForLock raises when the lock is not acquired within the bound
LockTimeout == "LockTimeout"

\* a getter that, on a timeout, reads the usage from the database and
\* returns it without writing it to the cache
CallLockTimeoutReadsDb(c) ==
    LET f == calls[c]
    IN  /\ f.pc = "waitForLock"
        /\ lock[FetchLockKey(f.organizationId, OpResourceType(f.op))] # Free
        /\ calls' = [calls EXCEPT ![c] =
               Return([f EXCEPT !.usage = SandboxUsageMetrics(f.organizationId),
                                !.path = "fetch", !.error = LockTimeout],
                      SandboxUsageMetrics(f.organizationId))]
        /\ UNCHANGED <<now, store, lock, sandboxDb, snapshotDb, volumeDb, events, nEmitted>>

\* a getter that, on a timeout, reads the database without the lock
CallLockTimeoutFallsBack(c) ==
    LET f == calls[c]
    IN  /\ f.pc = "waitForLock"
        /\ lock[FetchLockKey(f.organizationId, OpResourceType(f.op))] # Free
        /\ calls' = [calls EXCEPT ![c] = [f EXCEPT !.pc = "fetch", !.error = LockTimeout]]
        /\ UNCHANGED <<now, store, lock, sandboxDb, snapshotDb, volumeDb, events, nEmitted>>

\* await waitForLock, which is not in the try block, rejects: the getter
\* rejects with it
CallLockTimeout(c) ==
    LET f == calls[c]
    IN  /\ f.pc = "waitForLock"
        /\ lock[FetchLockKey(f.organizationId, OpResourceType(f.op))] # Free
        /\ calls' = [calls EXCEPT ![c] = Throw(f, LockTimeout)]
        /\ UNCHANGED <<now, store, lock, sandboxDb, snapshotDb, volumeDb, events, nEmitted>>

NextLockTimeout ==
    \/ Tick
    \/ \E k \in LockKeys : LockExpires(k)
    \/ \E c \in Readers : Start(c, "getSandboxUsageOverview", "none")
    \/ \E c \in Reservers : Start(c, "getSandboxUsageOverviewWithPending", "none")
    \/ \E c \in Callers : CachedGet(c)
    \/ \E c \in Callers : CachedStale(c)
    \/ \E c \in Callers : CachedRead(c)
    \/ \E c \in Callers : CachedReadWithPending(c)
    \/ \E c \in Callers : CachedStaleWithPending(c)
    \/ \E c \in Callers : CallLock(c)
    \/ \E c \in Callers : CallLockTimeout(c)
    \/ \E c \in Callers : Fetch(c)
    \/ \E c \in Callers : Setex(c)
    \/ \E c \in Callers : ResetStaleness(c)
    \/ \E c \in Callers : PendingGet(c)
    \/ \E c \in Callers : CallUnlock(c)

SpecLockTimeout == InitOverview /\ [][NextLockTimeout]_vars

\* call c has failed to take its lock
TimedOut(c) == calls[c].error = LockTimeout

\* C30: if the acquisition of the lock times out in a getX call, the call
\* reports the failure to its caller and returns no overview, has run no
\* database aggregation, writes no counter and no stamp, and does not unlock:
\* the timeout leaves the store and the locks as they are, and the call takes
\* no step after it.
C30_LockTimeoutFails ==
    /\ [](\A c \in Callers :
            TimedOut(c) =>
                /\ calls[c].pc = "done" /\ calls[c].ret = NoOverview
                /\ calls[c].path # "fetch" /\ calls[c].usage = NoOverview
                /\ ~calls[c].locked)
    /\ [][\A c \in Callers :
            (~TimedOut(c) /\ TimedOut(c)') => store' = store /\ lock' = lock]_vars
    /\ [][\A c \in Callers :
            TimedOut(c) => ~(Fetch(c) \/ Setex(c) \/ ResetStaleness(c) \/ CallUnlock(c))]_vars

\* one caller holds the fetch lock and is about to write the counters; the
\* other has missed, waited for the lock and timed out
C30_Witness ==
    \E c, d \in Callers :
        /\ TimedOut(c)
        /\ calls[d].pc = "setex" /\ calls[d].locked
        /\ lock[CallLockKey(calls[d])].owner = d
        /\ ~RedisExists(store, getQuotaUsageCacheKey("O1", "cpu"))

----------------------------------------------------------------------------
(* C31: what a getter returns when the wait for the lock times out.        *)

\* C31 as stated: if the acquisition of the lock times out in a getX call,
\* the caller falls back to reading the usage from the database and returns
\* it: a call that timed out returns the aggregate, three numbers >= 0.
C31_TimeoutFallsBack ==
    \A c \in Callers :
        (TimedOut(c) /\ Returned(c)) =>
            /\ calls[c].path = "fetch"
            /\ \A i \in 1..3 :
                   /\ IsNum(UsageField(calls[c].ret, SandboxQuotas[i]))
                   /\ UsageField(calls[c].ret, SandboxQuotas[i]).n >= 0

\* C31: if the acquisition of the lock times out in a getX call, the caller
\* does not fall back to the database: at the timeout the call ends with the
\* error of the lock, having read no aggregate, and it returns no usage; the
\* counters are written by the holder of the lock only.
C31_TimeoutNoFallback ==
    /\ [][\A c \in Callers :
            (calls[c].pc = "waitForLock" /\ calls'[c].pc # "waitForLock") =>
                \/ /\ TimedOut(c)' /\ Returned(c)'
                   /\ calls'[c].usage = NoOverview /\ calls'[c].ret = NoOverview
                   /\ calls'[c].path = "none"
                \/ /\ ~TimedOut(c)' /\ calls'[c].locked
                   /\ lock'[CallLockKey(calls[c])].owner = c]_vars
    /\ [][\A c \in Callers : Setex(c) => ~TimedOut(c) /\ calls[c].locked]_vars

\* one caller has rehydrated under the lock and returned the aggregate; the
\* other, which timed out waiting for that lock, has returned nothing
C31_Witness ==
    \E c, d \in Callers :
        /\ TimedOut(c) /\ calls[c].ret = NoOverview
        /\ Returned(d) /\ calls[d].path = "fetch" /\ ~TimedOut(d)
        /\ calls[d].ret.currentCpuUsage = SandboxUsageMetrics("O1").currentCpuUsage
        /\ RedisExists(store, getQuotaUsageCacheKey("O1", "cpu"))

----------------------------------------------------------------------------
(* C32: the release of a lock that expired and was taken by another.       *)

----------------------------------------------------------------------------
(* SpecReserve: callers reserve pending usage and roll their reservation   *)
(* back, while time passes. A frame keeps when its reservation was made.   *)

\* incrementPendingSandboxUsage with no sandbox to exclude, at time t0
Reserve(c, amounts) ==
    LET f == ReserverCall(c, "incrementPendingSandboxUsage", amounts, "none")
    IN  /\ calls[c].pc \in {"idle", "done"}
        /\ calls[c].n < MaxCalls
        /\ store' = incrementPendingScript(store, f.organizationId, f.flags, f.amounts)
        /\ calls' = [calls EXCEPT ![c] = [f EXCEPT !.pc = "done", !.t0 = now]]
        /\ UNCHANGED <<now, lock, sandboxDb, snapshotDb, volumeDb, events, nEmitted>>

\* decrementPendingSandboxUsage by the caller of a reservation, with the
\* amounts it reserved
RollBack(c) ==
    LET amounts == <<Num(calls[c].amounts[1]), Num(calls[c].amounts[2]),
                     Num(calls[c].amounts[3])>>
        f == ReserverCall(c, "decrementPendingSandboxUsage", amounts, "none")
    IN  /\ calls[c].pc = "done"
        /\ calls[c].op = "incrementPendingSandboxUsage"
        /\ calls[c].n < MaxCalls
        /\ store' = decrementPendingScript(store, f.organizationId, f.amounts)
        /\ calls' = [calls EXCEPT ![c] = [f EXCEPT !.pc = "done", !.t0 = now]]
        /\ UNCHANGED <<now, lock, sandboxDb, snapshotDb, volumeDb, events, nEmitted>>

NextReserve ==
    \/ Tick
    \/ \E c \in Callers, a \in IncrementAmounts \cup SettleAmounts : Reserve(c, a)
    \/ \E c \in Callers : RollBack(c)

SpecReserve == Init /\ [][NextReserve]_vars

\* the callers whose last call is a reservation made less than
\* CACHE_TTL_SECONDS ago: it was not rolled back, and nothing settles here
LiveReservers ==
    {c \in Callers : /\ calls[c].pc = "done"
                     /\ calls[c].op = "incrementPendingSandboxUsage"
                     /\ now < calls[c].t0 + CACHE_TTL_SECONDS}

\* C33: pending never under-counts live reservations: for each kind the
\* pending counter, absent counted as zero, is at least the sum of the
\* amounts reserved within the last CACHE_TTL_SECONDS and not rolled back,
\* also when a roll-back arrives after the key has expired.
C33_PendingCoversLive ==
    \A o \in Organizations, i \in 1..3 :
        ToNumber(PendingValue(store, o, SandboxQuotas[i]))
            >= Sum(LiveReservers, [c \in LiveReservers |-> calls[c].amounts[i]])

----------------------------------------------------------------------------
(* The events of one sandbox, taken together *)

\* every event emitted for sandbox id has been handled
AllHandled(id) == \A e \in events : e.entityId # id

\* what the sandbox row of id counts for the quota in state st
CountedIn(id, quotaType, st) ==
    IF st \in StatesConsuming(quotaType)
    THEN AmountOf(SandboxRow(id), quotaType)
    ELSE 0

----------------------------------------------------------------------------
(* SpecScope: the exclusion step of a call made for an organization that   *)
(* may or may not be the one the excluded sandbox belongs to. The usage    *)
(* the call has obtained is any overview of the organization.              *)

CallOrganizations == {"O1", "O2"}

\* the call of a reader has its usage and is about to exclude the sandbox
InitScope ==
    /\ now = 0
    /\ store = [k \in Keys |-> Absent]
    /\ lock = [k \in LockKeys |-> Free]
    /\ sandboxDb \in [SandboxIds -> {"none"} \cup SandboxStates]
    /\ snapshotDb = [id \in SnapshotIds |-> "none"]
    /\ volumeDb = [id \in VolumeIds |-> "none"]
    /\ events = {}
    /\ nEmitted = 0
    /\ \E o \in CallOrganizations, ex \in SandboxIds,
          op \in {"getSandboxUsageOverview", "getSandboxUsageOverviewWithPending"},
          cpu \in 0..MaxAmount, memory \in 0..MaxAmount, disk \in 0..MaxAmount :
          calls = [c \in Callers |->
                     IF c \in Readers
                     THEN [IdleCall EXCEPT !.pc = "exclude", !.op = op, !.organizationId = o,
                                           !.excludeSandboxId = ex, !.n = 1, !.path = "hit",
                                           !.usage = SandboxUsageOverview(Num(cpu), Num(memory),
                                                                          Num(disk))]
                     ELSE IdleCall]

NextScope == \E c \in Readers : Exclude(c)

SpecScope == InitScope /\ [][NextScope]_vars

\* C35: exclusion is scoped to the organization: a call for organization O
\* that excludes a sandbox of another organization returns what it would
\* return without the exclusion.
C35_ExclusionScoped ==
    \A c \in Callers :
        (/\ Returned(c)
         /\ calls[c].excludeSandboxId # "none"
         /\ SandboxRow(calls[c].excludeSandboxId).organizationId # calls[c].organizationId)
            => calls[c].ret = calls[c].usage

----------------------------------------------------------------------------
(* SpecCacheFull: a call of getSandboxUsageOverview that excludes a        *)
(* sandbox, then calls without exclusion, over a table that does not       *)
(* change.                                                                 *)

NextCacheFull ==
    \/ Tick
    \/ \E c \in Readers, ex \in SandboxIds :
           calls[c].n = 0 /\ Start(c, "getSandboxUsageOverview", ex)
    \/ \E c \in Readers :
           calls[c].n > 0 /\ Start(c, "getSandboxUsageOverview", "none")
    \/ \E c \in Readers : CachedGet(c)
    \/ \E c \in Readers : CachedStale(c)
    \/ \E c \in Readers : CachedRead(c)
    \/ \E c \in Readers : CallLock(c)
    \/ \E c \in Readers : Fetch(c)
    \/ \E c \in Readers : Setex(c)
    \/ \E c \in Readers : ResetStaleness(c)
    \/ \E c \in Readers : Exclude(c)
    \/ \E c \in Readers : CallUnlock(c)

SpecCacheFull == InitExclude /\ [][NextCacheFull]_vars

\* the confirmed counter of the quota is absent or holds the full aggregate
HoldsFullAggregate(organizationId, quotaType) ==
    ConfirmedValue(store, organizationId, quotaType)
        \in {Nil, UsageField(SandboxUsageMetrics(organizationId), quotaType)}

\* C36 as stated: exclusion never reaches the cache: the rehydrate of a call
\* that carries excludeSandboxId stores the full aggregate, the share of the
\* excluded sandbox included, and a later call without exclusion that hits the
\* cache returns the full usage.
C36_CacheHoldsFullUsage ==
    /\ \A o \in Organizations, i \in 1..3 : HoldsFullAggregate(o, SandboxQuotas[i])
    /\ \A c \in Callers :
           (Returned(c) /\ OnCacheHit(c) /\ calls[c].excludeSandboxId = "none")
               => \A i \in 1..3 :
                      UsageField(calls[c].ret, SandboxQuotas[i])
                        = UsageField(SandboxUsageMetrics(calls[c].organizationId),
                                     SandboxQuotas[i])

----------------------------------------------------------------------------
(* The cache hit on the first check *)

\* the frame of call c changes, the values it has seen pass aside
CallMoves(c) == [calls'[c] EXCEPT !.seen = {}] # [calls[c] EXCEPT !.seen = {}]

\* call c is at a check of the cache it makes before it has asked for a lock,
\* or at the exclusion that follows the hit
OnFirstCheck(c) ==
    /\ ~calls[c].locked
    /\ calls[c].pc \in {"getQuotaUsageCachedValue", "isCacheStale", "read", "readWithPending",
                        "isCacheStaleWithPending", "exclude"}

\* C37: a getX call that hits the cache on its first check acquires no lock,
\* runs no database aggregation and writes nothing to the store: each of its
\* steps leaves the confirmed counters, their TTLs, the pending counters, the
\* staleness stamp and the locks as they were, and the call that returns on
\* the hit path has held no lock.
C37_HitTouchesNothing ==
    /\ [][\A c \in Callers :
            (OnFirstCheck(c) /\ CallMoves(c)) =>
                /\ store' = store
                /\ lock' = lock
                /\ <<sandboxDb, snapshotDb, volumeDb>>' = <<sandboxDb, snapshotDb, volumeDb>>
                /\ ~calls'[c].locked
                /\ calls'[c].path \in {"none", "hit"}
                /\ calls'[c].pc \notin {"fetch", "setex", "resetCacheStaleness"}]_vars
    /\ [][\A c \in Callers :
            (calls'[c].path = "hit" /\ calls[c].path # "hit") => OnFirstCheck(c)]_vars
    /\ [](\A c \in Callers :
            calls[c].path = "hit" => (~calls[c].locked /\ calls[c].tLocked = 0))

\* a call has returned on the hit path what the cache held
C37_Witness ==
    \E c \in Callers :
        /\ Returned(c)
        /\ calls[c].path = "hit"
        /\ IsNum(calls[c].ret.currentCpuUsage)
        /\ \A k \in LockKeys : lock[k].owner # c

----------------------------------------------------------------------------
(* SpecRelease: getters and handlers whose awaited calls may fail, with    *)
(* the locks they take and release. No time passes: no lock expires.       *)

\* an awaited read, query or write of a getter rejects: the error leaves the
\* call, through the finally block if the call is inside the try
CallFail(c) ==
    LET f == calls[c]
    IN  /\ f.pc \in {"getQuotaUsageCachedValue", "isCacheStale", "read", "fetch", "setex",
                     "resetCacheStaleness"}
        /\ calls' = [calls EXCEPT ![c] = Return([f EXCEPT !.error = "Error"], NoOverview)]
        /\ UNCHANGED <<now, store, lock, sandboxDb, snapshotDb, volumeDb, events, nEmitted>>

NextRelease ==
    \/ \E id \in SandboxIds, st \in SandboxStates : SandboxUpdateState(id, st)
    \/ \E e \in events : HandlerLock(e)
    \/ \E e \in events : HandlerUpdate(e)
    \/ \E e \in events : HandlerFail(e)
    \/ \E e \in events : HandlerUnlock(e)
    \/ \E c \in Callers : Start(c, "getSandboxUsageOverview", "none")
    \/ \E c \in Callers : CachedGet(c)
    \/ \E c \in Callers : CachedStale(c)
    \/ \E c \in Callers : CachedRead(c)
    \/ \E c \in Callers : CallLock(c)
    \/ \E c \in Callers : Fetch(c)
    \/ \E c \in Callers : CallFail(c)
    \/ \E c \in Callers : Setex(c)
    \/ \E c \in Callers : ResetStaleness(c)
    \/ \E c \in Callers : CallUnlock(c)

SpecRelease == InitOverview /\ [][NextRelease]_vars

\* the step releases the lock of key k if owner o still holds it, and leaves
\* every other lock as it is
ReleasedBy(k, o) ==
    lock' = IF lock[k].owner = o THEN [lock EXCEPT ![k] = Free] ELSE lock

\* the events that event e has become after the step
After(e) == {g \in events' : g.id = e.id}

\* C38: every call that acquires a lock releases it exactly once before it
\* completes, on normal return, on a hit at the re-check and when a query or a
\* script fails: a getter that holds the lock completes only by its unlock, its
\* unlock is its last step, and a call unlocks only if it took the lock; the
\* same for the handlers.
C38_ReleasedOnce ==
    /\ [][\A c \in Callers :
            CallMoves(c) =>
                /\ (calls[c].locked /\ calls'[c].pc = "done") =>
                       /\ calls[c].pc = "unlock"
                       /\ ~calls'[c].locked
                       /\ ReleasedBy(FetchLockKey(calls[c].organizationId,
                                                  OpResourceType(calls[c].op)), c)
                /\ calls[c].pc = "unlock" => (calls[c].locked /\ calls'[c].pc = "done")
                /\ (calls'[c].locked /\ ~calls[c].locked) =>
                       /\ calls[c].pc = "waitForLock"
                       /\ lock'[FetchLockKey(calls[c].organizationId,
                                             OpResourceType(calls[c].op))].owner = c
                /\ (~calls[c].locked /\ ~calls'[c].locked) => lock' = lock]_vars
    /\ [][\A e \in events :
            After(e) # {e} =>
                /\ After(e) = {} =>
                       /\ e.pc = "unlock"
                       /\ ReleasedBy(EventLockKey(e), ToString(e.id))
                /\ e.pc = "unlock" => After(e) = {}
                /\ e.pc = "waitForLock" =>
                       \A g \in After(e) :
                           /\ InHandler(g)
                           /\ lock'[EventLockKey(e)].owner = ToString(e.id)
                /\ e.pc = "update" => (lock' = lock /\ \A g \in After(e) : InHandler(g))]_vars
    /\ [](\A c \in Callers :
            /\ calls[c].pc \in {"idle", "done", "waitForLock"} => ~calls[c].locked
            /\ calls[c].pc = "unlock" => calls[c].locked)

\* a getter has released its lock after a failure, a getter after a hit at the
\* re-check, and a handler after a failed script
C38_Witness ==
    /\ \E c \in Callers : Returned(c) /\ calls[c].error = "Error" /\ calls[c].path = "fetch"
    /\ \E c \in Callers : Returned(c) /\ calls[c].error = "none" /\ calls[c].path = "recheck"
    /\ \A k \in LockKeys : lock[k] = Free
    /\ nEmitted > 0 /\ events = {}

----------------------------------------------------------------------------
(* SpecLive: one call of getUsageOverview by each caller, with the         *)
(* organization supplied, beside the handlers of snapshot events; every    *)
(* awaited call completes.                                                 *)
(* No time passes: a lock is only freed by its holder.                     *)

\* the steps of call c once it has begun
CallStep(c) ==
    \/ NextGetter(c)
    \/ CachedGet(c)
    \/ CachedStale(c)
    \/ CachedRead(c)
    \/ CallLock(c)
    \/ Fetch(c)
    \/ Setex(c)
    \/ ResetStaleness(c)
    \/ CallUnlock(c)

NextLive ==
    \/ \E c \in Callers, o \in OrganizationTable :
           calls[c].n = 0 /\ getUsageOverviewStart(c, o, o)
    \/ \E c \in Callers : CallStep(c)
    \/ \E id \in SnapshotIds, st \in SnapshotStates : SnapshotUpdateState(id, st)
    \/ \E e \in events : HandlerLock(e)
    \/ \E e \in events : HandlerUpdate(e)
    \/ \E e \in events : HandlerUnlock(e)

\* the event loop runs every continuation that is ready, and the database and
\* the store answer every call
SpecLive ==
    /\ InitOverview
    /\ [][NextLive]_vars
    /\ \A c \in Callers : WF_vars(CallStep(c))
    /\ WF_vars(\E e \in events : Handler(e))

\* the locks the owner token holds
LocksOf(owner) == {k \in LockKeys : lock[k].owner = owner}

\* call c has begun and not completed
InFlight(c) ==
    \/ calls[c].pc \notin {"idle", "done"}
    \/ calls[c].pc = "done" /\ calls[c].outer = "getUsageOverview"
          /\ calls[c].op # "getUsageOverview"

\* C39: no operation waits for a lock while it holds another one:
\* getUsageOverview takes and releases the three fetch locks one after the
\* other, a handler holds only the lock of its entity; so every call and every
\* handler that has begun completes, as long as the awaited calls of the lock
\* holders complete.
C39_NoHoldAndWait ==
    /\ [](\A c \in Callers :
            /\ Cardinality(LocksOf(c)) <= 1
            /\ calls[c].pc = "waitForLock" => LocksOf(c) = {})
    /\ [](\A e \in events :
            /\ LocksOf(ToString(e.id)) \subseteq {EventLockKey(e)}
            /\ e.pc = "waitForLock" => LocksOf(ToString(e.id)) = {})
    /\ \A c \in Callers : InFlight(c) ~> ~InFlight(c)
    /\ \A id \in 1..MaxEvents :
           (\E e \in events : e.id = id) ~> ~(\E e \in events : e.id = id)

\* a call waits for the fetch lock another call holds, while a handler holds
\* the lock of its snapshot
C39_Witness ==
    \E c, d \in Callers :
        /\ calls[c].pc = "waitForLock"
        /\ lock[FetchLockKey(calls[c].organizationId, OpResourceType(calls[c].op))].owner = d
        /\ d # c
        /\ \E e \in events : LocksOf(ToString(e.id)) # {}

====
